---------------------------- MODULE Spec2Model ----------------------------
(***************************************************************************)
(* A model of the telemetry analytics pipeline of f1telemetry: lap         *)
(* alignment and cumulative delta time (alignment.py), corner analysis     *)
(* (corners.py), corner delta decomposition (delta_decomp.py) and braking  *)
(* zone detection (braking_zones.py).                                      *)
(*                                                                         *)
(* The pipeline stages are pure functions of their arguments.  Each stage  *)
(* is an operator computed the way the code computes it, and each          *)
(* specification draws the arguments of one stage from bounded sets in its *)
(* initial states and applies the stage in an action.                      *)
(*                                                                         *)
(* Numbers.  The code computes in floating point; the model computes in    *)
(* exact rational arithmetic.  A rational is a pair <<n, d>> with d > 0    *)
(* and gcd(n, d) = 1, so equal rationals are equal values.  Array indices  *)
(* are 0-based as in the code; At(s, i) reads element i of an array.       *)
(***************************************************************************)
EXTENDS Integers, Sequences, FiniteSets

VARIABLES
    telemetry1,     \* the first trace passed to the stage under analysis
    telemetry2,     \* the second trace passed to it (when it takes two)
    config,         \* the Config / keyword arguments passed to it
    corner1,        \* the Corner of driver 1 passed to decompose_corner_delta
    corner2,        \* the Corner of driver 2 passed to it
    aligned,        \* outcome of align_laps
    delta_time,     \* outcome of compute_delta_time
    zones,          \* outcome of braking_zones.detect_braking_zones
    corners,        \* outcome of detect_corners / get_circuit_corners
    decomposition,  \* outcome of decompose_corner_delta
    arguments,      \* the named arguments of a call of any other operation
    result          \* outcome of that call

vars == <<telemetry1, telemetry2, config, corner1, corner2, aligned, delta_time, zones,
          corners, decomposition, arguments, result>>

\* The value of an outcome variable before its stage has run, and of an
\* argument variable in a specification whose stage does not take it.
NotRun == [status |-> "not_run"]
Unused == <<>>

\* The variables of the stages above that take their arguments from their
\* own variables; the operations called through arguments leave them alone.
stage_vars == <<telemetry1, telemetry2, config, corner1, corner2, aligned, delta_time,
                zones, corners, decomposition>>

StagesIdle ==
    /\ telemetry1 = Unused
    /\ telemetry2 = Unused
    /\ config = Unused
    /\ corner1 = Unused
    /\ corner2 = Unused
    /\ aligned = NotRun
    /\ delta_time = NotRun
    /\ zones = NotRun
    /\ corners = NotRun
    /\ decomposition = NotRun

-----------------------------------------------------------------------------
(* Exact arithmetic standing for the code's float arithmetic.              *)

Abs(n) == IF n < 0 THEN -n ELSE n

RECURSIVE GCD(_, _)
GCD(a, b) == IF b = 0 THEN a ELSE GCD(b, a % b)

\* n/d as a normalised rational, d # 0.
Rat(n, d) ==
    LET g == GCD(Abs(n), Abs(d))
        s == IF d < 0 THEN -1 ELSE 1
    IN  <<(s * n) \div g, (s * d) \div g>>

R(n) == <<n, 1>>

\* Sums and comparisons go through the least common denominator.
RAdd(a, b) ==
    LET g == GCD(a[2], b[2])
    IN  Rat(a[1] * (b[2] \div g) + b[1] * (a[2] \div g), (a[2] \div g) * b[2])
RNeg(a) == <<-a[1], a[2]>>
RSub(a, b) == RAdd(a, RNeg(b))
RMul(a, b) ==
    LET g1 == GCD(Abs(a[1]), b[2])
        g2 == GCD(Abs(b[1]), a[2])
    IN  <<(a[1] \div g1) * (b[1] \div g2), (a[2] \div g2) * (b[2] \div g1)>>
\* a / b, b # 0
RDiv(a, b) == RMul(a, IF b[1] < 0 THEN <<-b[2], -b[1]>> ELSE <<b[2], b[1]>>)
RAbs(a) == <<Abs(a[1]), a[2]>>
RLt(a, b) ==
    LET g == GCD(a[2], b[2])
    IN  a[1] * (b[2] \div g) < b[1] * (a[2] \div g)
RLe(a, b) ==
    LET g == GCD(a[2], b[2])
    IN  a[1] * (b[2] \div g) <= b[1] * (a[2] \div g)
RGt(a, b) == RLt(b, a)
RGe(a, b) == RLe(b, a)
RMax(a, b) == IF RGe(a, b) THEN a ELSE b
RMin(a, b) == IF RLe(a, b) THEN a ELSE b
\* math.ceil of a rational, as an integer
RCeil(a) == -((-a[1]) \div a[2])

\* Element i (0-based) of an array.
At(s, i) == s[i + 1]

\* The values of one column of a telemetry table, as an array.
Column(telemetry, col) == [i \in 1..Len(telemetry) |-> telemetry[i][col]]

\* Series.min() / Series.max() of a non-empty array of numbers.
RECURSIVE SeqMin(_)
SeqMin(s) ==
    IF Len(s) = 1 THEN s[1]
    ELSE RMin(SeqMin(SubSeq(s, 1, Len(s) \div 2)),
              SeqMin(SubSeq(s, Len(s) \div 2 + 1, Len(s))))

RECURSIVE SeqMax(_)
SeqMax(s) ==
    IF Len(s) = 1 THEN s[1]
    ELSE RMax(SeqMax(SubSeq(s, 1, Len(s) \div 2)),
              SeqMax(SubSeq(s, Len(s) \div 2 + 1, Len(s))))

-----------------------------------------------------------------------------
(* alignment.py: validate_telemetry, create_distance_array,                *)
(* interpolate_telemetry, align_laps                                       *)

\* Longest trace handed to align_laps and compute_delta_time.
MaxLen == 2

\* Distance values (m) and speed values (km/h) of the traces handed to
\* align_laps, and the distance_resolution values of its Config.
AlignDistances == {R(0), R(1), R(3)}
AlignSpeeds == {R(100), R(200)}
Resolutions == {<<1, 2>>, R(2)}

AlignSamples == [Distance : AlignDistances, Speed : AlignSpeeds]

\* validate_telemetry: "ok", or the ValueError it raises.  The traces of
\* the model carry the Distance and Speed columns and no NaN, so of its
\* checks only the one for an empty table can fail; a Distance column that
\* is not monotonic is logged and accepted.
validate_telemetry(telemetry) ==
    IF telemetry = <<>> THEN "ValueError: is empty" ELSE "ok"

\* A grid that also holds the first point at or beyond max_distance.
create_distance_array_closed(min_distance, max_distance, resolution) ==
    LET n == RCeil(RDiv(RSub(max_distance, min_distance), resolution)) + 1
    IN  [i \in 1..(IF n > 0 THEN n ELSE 0) |->
            RAdd(min_distance, RMul(R(i - 1), resolution))]

\* np.arange(min_distance, max_distance, resolution)
create_distance_array(min_distance, max_distance, resolution) ==
    LET n == RCeil(RDiv(RSub(max_distance, min_distance), resolution))
    IN  [i \in 1..(IF n > 0 THEN n ELSE 0) |->
            RAdd(min_distance, RMul(R(i - 1), resolution))]

\* DataFrame.drop_duplicates(subset=['Distance']): the first row of each
\* Distance value is kept, in the original order.
RECURSIVE drop_duplicates(_)
drop_duplicates(t) ==
    IF t = <<>> THEN <<>>
    ELSE LET init == drop_duplicates(SubSeq(t, 1, Len(t) - 1))
             last == t[Len(t)]
         IN  IF \E i \in 1..Len(init) : init[i].Distance = last.Distance
             THEN init
             ELSE Append(init, last)

\* DataFrame.sort_values('Distance') of a table without duplicate distances.
RECURSIVE sort_values(_)
sort_values(t) ==
    IF t = <<>> THEN <<>>
    ELSE LET m == CHOOSE i \in 1..Len(t) :
                     \A j \in 1..Len(t) : RLe(t[i].Distance, t[j].Distance)
             rest == [k \in 1..(Len(t) - 1) |-> IF k < m THEN t[k] ELSE t[k + 1]]
         IN  <<t[m]>> \o sort_values(rest)

\* np.searchsorted(x, x_new): the number of elements of x below x_new.
searchsorted(x, x_new) == Cardinality({i \in 1..Len(x) : RLt(x[i], x_new)})

\* scipy interp1d(x, y, kind='linear', bounds_error=False,
\* fill_value=(y[0], y[-1])) evaluated at x_new; x is sorted, without
\* duplicates and has at least two elements.
interp1d(x, y, x_new) ==
    IF RLt(x_new, x[1]) THEN y[1]
    ELSE IF RGt(x_new, x[Len(x)]) THEN y[Len(y)]
    ELSE LET s == searchsorted(x, x_new)
             hi == IF s < 1 THEN 1 ELSE IF s > Len(x) - 1 THEN Len(x) - 1 ELSE s
             lo == hi - 1
             slope == RDiv(RSub(At(y, hi), At(y, lo)), RSub(At(x, hi), At(x, lo)))
         IN  RAdd(RMul(slope, RSub(x_new, At(x, lo))), At(y, lo))

\* The channels interpolate_telemetry interpolates by default: those of its
\* list that the table has (the model's tables carry some of Speed,
\* Throttle and Brake; an empty table has no rows to read them from).
columns_to_interpolate(telemetry) ==
    IF telemetry = <<>> THEN {}
    ELSE {"Speed", "Throttle", "Brake"} \cap DOMAIN telemetry[1]

\* interpolate_telemetry: a new table on distance_array.
interpolate_telemetry(telemetry, distance_array) ==
    LET cols == columns_to_interpolate(telemetry)
        interpolated(df_clean) ==
            [k \in 1..Len(distance_array) |->
                [c \in cols \cup {"Distance"} |->
                    IF c = "Distance" THEN distance_array[k]
                    ELSE interp1d(Column(df_clean, "Distance"), Column(df_clean, c),
                                  distance_array[k])]]
    IN  CHOOSE out \in {interpolated(df) : df \in {sort_values(drop_duplicates(telemetry))}} :
            TRUE

\* The range check of align_laps: the overlap interval is empty or
\* degenerate.
no_overlap_touching_accepted(min_distance, max_distance) == RGt(min_distance, max_distance)

no_overlap(min_distance, max_distance) == RGe(min_distance, max_distance)

\* align_laps: the pair of aligned tables, or the ValueError raised.
align_laps(t1, t2, cfg) ==
    IF validate_telemetry(t1) # "ok" THEN [status |-> "ValueError", message |-> "telemetry1 is empty"]
    ELSE IF validate_telemetry(t2) # "ok" THEN [status |-> "ValueError", message |-> "telemetry2 is empty"]
    ELSE
    LET min_dist1 == SeqMin(Column(t1, "Distance"))
        max_dist1 == SeqMax(Column(t1, "Distance"))
        min_dist2 == SeqMin(Column(t2, "Distance"))
        max_dist2 == SeqMax(Column(t2, "Distance"))
        min_distance == RMax(min_dist1, min_dist2)
        max_distance == RMin(max_dist1, max_dist2)
    IN  IF no_overlap(min_distance, max_distance)
        THEN [status |-> "ValueError", message |-> "No overlapping distance range found"]
        ELSE LET distance_array ==
                    create_distance_array(min_distance, max_distance, cfg.distance_resolution)
             IN  [status |-> "ok",
                  aligned1 |-> interpolate_telemetry(t1, distance_array),
                  aligned2 |-> interpolate_telemetry(t2, distance_array)]

InitAlign ==
    /\ \E n1, n2 \in 0..MaxLen :
          /\ telemetry1 \in [1..n1 -> AlignSamples]
          /\ telemetry2 \in [1..n2 -> AlignSamples]
    /\ config \in [distance_resolution : Resolutions]
    /\ corner1 = Unused
    /\ corner2 = Unused
    /\ aligned = NotRun
    /\ delta_time = NotRun
    /\ zones = NotRun
    /\ corners = NotRun
    /\ decomposition = NotRun
    /\ arguments = Unused
    /\ result = NotRun

AlignLaps ==
    /\ aligned = NotRun
    /\ aligned' = align_laps(telemetry1, telemetry2, config)
    /\ UNCHANGED <<telemetry1, telemetry2, config, corner1, corner2,
                   delta_time, zones, corners, decomposition,
                   arguments, result>>

NextAlign == AlignLaps

SpecAlign == InitAlign /\ [][NextAlign]_vars

-----------------------------------------------------------------------------
(* Properties of align_laps                                                *)

\* The overlap interval [max(min1,min2), min(max1,max2)] of the two inputs.
OverlapStart ==
    RMax(SeqMin(Column(telemetry1, "Distance")), SeqMin(Column(telemetry2, "Distance")))
OverlapEnd ==
    RMin(SeqMax(Column(telemetry1, "Distance")), SeqMax(Column(telemetry2, "Distance")))

ValidInputs == telemetry1 # <<>> /\ telemetry2 # <<>>

IsSorted(s) == \A i \in 1..(Len(s) - 1) : RLe(s[i], s[i + 1])
HasDuplicates(s) == \E i, j \in 1..Len(s) : i < j /\ s[i] = s[j]

C2_RangeError ==
    (ValidInputs /\ aligned # NotRun) =>
        /\ (aligned.status = "ValueError") <=> RGe(OverlapStart, OverlapEnd)
        /\ (aligned.status = "ok") <=> RLt(OverlapStart, OverlapEnd)
        /\ aligned.status = "ok" =>
              Len(aligned.aligned1) >= 1 /\ Len(aligned.aligned2) >= 1

\* C2 witness: two ranges that touch in one point (max1 = min2, both traces
\* spanning more than a point) raise the range error.
C2_Witness ==
    /\ ValidInputs
    /\ aligned # NotRun
    /\ aligned.status = "ValueError"
    /\ OverlapStart = OverlapEnd
    /\ SeqMax(Column(telemetry1, "Distance")) = SeqMin(Column(telemetry2, "Distance"))
    /\ RLt(SeqMin(Column(telemetry1, "Distance")), SeqMax(Column(telemetry1, "Distance")))
    /\ RLt(SeqMin(Column(telemetry2, "Distance")), SeqMax(Column(telemetry2, "Distance")))

-----------------------------------------------------------------------------
(* alignment.py: compute_delta_time                                        *)

\* Distance values (m) and speed values (km/h) of the traces handed to
\* compute_delta_time.
DeltaDistances == {R(0), R(1), R(3)}
DeltaSpeeds == {R(0), R(100), R(110)}

DeltaSamples == [Distance : DeltaDistances, Speed : DeltaSpeeds]

\* np.diff(distances, prepend=distances[0])
distance_deltas(distances) ==
    [i \in 1..Len(distances) |->
        IF i = 1 THEN RSub(distances[1], distances[1])
        ELSE RSub(distances[i], distances[i - 1])]

\* (speed + epsilon) / 3.6 with epsilon = 0.1 km/h: km/h to m/s
speed_ms(speed) == [i \in 1..Len(speed) |-> RDiv(RAdd(speed[i], <<1, 10>>), <<36, 10>>)]

\* distance_deltas / speed_ms, element by element
time_deltas(dd, v_ms) == [i \in 1..Len(dd) |-> RDiv(dd[i], v_ms[i])]

\* np.cumsum(s): the running sums of the first half, then those of the
\* second half on top of the first half's total.
RECURSIVE cumsum(_)
cumsum(s) ==
    IF Len(s) <= 1 THEN s
    ELSE LET first == cumsum(SubSeq(s, 1, Len(s) \div 2))
             second == cumsum(SubSeq(s, Len(s) \div 2 + 1, Len(s)))
         IN  first \o SubSeq([i \in 1..Len(second) |-> RAdd(first[Len(first)], second[i])],
                             1, Len(second))

\* The cumulative difference with the two drivers exchanged.
cumulative_difference_swapped(time_deltas1, time_deltas2) ==
    cumsum([i \in 1..Len(time_deltas1) |-> RSub(time_deltas2[i], time_deltas1[i])])

\* np.cumsum(time_deltas1 - time_deltas2)
cumulative_difference(time_deltas1, time_deltas2) ==
    cumsum([i \in 1..Len(time_deltas1) |-> RSub(time_deltas1[i], time_deltas2[i])])

\* compute_delta_time: the cumulative delta array, or the error raised.
\* Only the lengths are compared; the distances are read from telemetry1
\* alone.  distances[0] of an empty table raises an IndexError.
compute_delta_time(t1, t2) ==
    IF Len(t1) # Len(t2)
    THEN [status |-> "ValueError", message |-> "Telemetries must be aligned (same length)"]
    ELSE IF t1 = <<>> THEN [status |-> "IndexError"]
    ELSE LET speed1 == Column(t1, "Speed")
             speed2 == Column(t2, "Speed")
             distances == Column(t1, "Distance")
             dd == distance_deltas(distances)
             time_deltas1 == time_deltas(dd, speed_ms(speed1))
             time_deltas2 == time_deltas(dd, speed_ms(speed2))
         IN  [status |-> "ok",
              delta |-> cumulative_difference(time_deltas1, time_deltas2)]

InitDelta ==
    /\ \E n1, n2 \in 0..MaxLen :
          /\ telemetry1 \in [1..n1 -> DeltaSamples]
          /\ telemetry2 \in [1..n2 -> DeltaSamples]
    /\ config = Unused
    /\ corner1 = Unused
    /\ corner2 = Unused
    /\ aligned = NotRun
    /\ delta_time = NotRun
    /\ zones = NotRun
    /\ corners = NotRun
    /\ decomposition = NotRun
    /\ arguments = Unused
    /\ result = NotRun

ComputeDeltaTime ==
    /\ delta_time = NotRun
    /\ delta_time' = compute_delta_time(telemetry1, telemetry2)
    /\ UNCHANGED <<telemetry1, telemetry2, config, corner1, corner2,
                   aligned, zones, corners, decomposition,
                   arguments, result>>

NextDelta == ComputeDeltaTime

SpecDelta == InitDelta /\ [][NextDelta]_vars

-----------------------------------------------------------------------------
(* Properties of compute_delta_time                                        *)

\* The two tables are aligned: same length, same non-decreasing grid.
SameGrid ==
    /\ Len(telemetry1) = Len(telemetry2)
    /\ Column(telemetry1, "Distance") = Column(telemetry2, "Distance")

Aligned == SameGrid /\ IsSorted(Column(telemetry1, "Distance"))

\* C3: on two aligned traces, driver 1 nowhere slower than driver 2 gives a
\* cumulative delta <= 0 at the final sample, identical speed traces give a
\* delta of 0 at every sample, and the array has one value per sample.
C3_DeltaSign ==
    (delta_time # NotRun /\ Aligned /\ telemetry1 # <<>>) =>
        /\ delta_time.status = "ok"
        /\ Len(delta_time.delta) = Len(telemetry1)
        /\ (\A i \in 1..Len(telemetry1) :
                RGe(telemetry1[i].Speed, telemetry2[i].Speed))
            => RLe(delta_time.delta[Len(delta_time.delta)], R(0))
        /\ Column(telemetry1, "Speed") = Column(telemetry2, "Speed")
            => \A i \in 1..Len(delta_time.delta) : delta_time.delta[i] = R(0)

\* C3 witness: driver 1 is faster at some sample of a strictly increasing
\* grid and never slower, and the final delta is negative.
C3_Witness ==
    /\ delta_time # NotRun
    /\ Aligned
    /\ Len(telemetry1) >= 2
    /\ \A i \in 1..(Len(telemetry1) - 1) :
          RLt(telemetry1[i].Distance, telemetry1[i + 1].Distance)
    /\ \A i \in 1..Len(telemetry1) : RGe(telemetry1[i].Speed, telemetry2[i].Speed)
    /\ delta_time.status = "ok"
    /\ RLt(delta_time.delta[Len(delta_time.delta)], R(0))

\* C4: compute_delta_time raises for every pair of traces that is not
\* aligned: different lengths, or equal lengths on different distance grids.
C4_RaisesUnlessAligned ==
    (delta_time # NotRun /\ ~SameGrid) => delta_time.status = "ValueError"

-----------------------------------------------------------------------------
(* delta_decomp.py: decompose_corner_delta                                 *)

\* apex_distance: the nominal distance (m) around the apex at minimum speed
ApexDistance == 20

\* The speed (km/h) that the decomposer converts to exactly m metres per
\* second: s / 3.6 + 0.01 = m.
KmhOf(m) == RSub(RMul(<<18, 5>>, m), <<36, 1000>>)

\* Field values of the Corner records handed to decompose_corner_delta:
\* speeds in km/h (20 and 40 m/s), distances in metres.  Braking distances
\* of 20 m and 20.2 m differ by exactly 0.01 s at 20 m/s and by less at
\* higher speeds.
EntrySpeeds == {KmhOf(R(20)), KmhOf(R(40))}
MinSpeeds == {KmhOf(R(20)), KmhOf(R(40))}
ExitSpeeds == {KmhOf(R(20)), KmhOf(R(40))}
BrakeDistances == {R(0), R(20), <<101, 5>>}
ThrottleDistances == {R(0), R(20)}

DecompCorners ==
    [corner_id : {1},
     entry_speed : EntrySpeeds, min_speed : MinSpeeds, exit_speed : ExitSpeeds,
     brake_distance : BrakeDistances,
     throttle_reapply_distance : ThrottleDistances]

\* distance / (speed / 3.6 + 0.01): time over a distance at a speed in km/h
phase_time(distance, speed) ==
    RDiv(distance, RAdd(RDiv(speed, <<36, 10>>), <<1, 100>>))

\* (a + b) / 2
average(a, b) == RDiv(RAdd(a, b), R(2))

\* A total that leaves the traction phase out.
total_without_traction(braking_delta, mid_corner_delta, traction_delta) ==
    RAdd(braking_delta, mid_corner_delta)

\* total_delta = braking_delta + mid_corner_delta + traction_delta
total_of(braking_delta, mid_corner_delta, traction_delta) ==
    RAdd(RAdd(braking_delta, mid_corner_delta), traction_delta)

\* A dominant phase whose ties go to the last phase of the order.
dominant_phase_last_wins(braking_delta, mid_corner_delta, traction_delta) ==
    LET b == RAbs(braking_delta)
        m == RAbs(mid_corner_delta)
        t == RAbs(traction_delta)
        largest == RMax(RMax(b, m), t)
    IN  IF RLt(largest, <<1, 100>>) THEN "neutral"
        ELSE IF t = largest THEN "traction"
        ELSE IF m = largest THEN "mid_corner"
        ELSE "braking"

\* max(contributions, key=contributions.get) over the dict built in the
\* order braking, mid_corner, traction (the first key holding the largest
\* value), replaced by "neutral" when max(contributions.values()) < 0.01.
dominant_phase_of(braking_delta, mid_corner_delta, traction_delta) ==
    LET b == RAbs(braking_delta)
        m == RAbs(mid_corner_delta)
        t == RAbs(traction_delta)
        largest == RMax(RMax(b, m), t)
    IN  IF RLt(largest, <<1, 100>>) THEN "neutral"
        ELSE IF b = largest THEN "braking"
        ELSE IF m = largest THEN "mid_corner"
        ELSE "traction"

\* decompose_corner_delta: the CornerDecomposition of a corner pair (the
\* qualitative labels are computed from the corners alone and are not part
\* of this record).
decompose_corner_delta(c1, c2) ==
    LET time_braking_1 ==
            phase_time(c1.brake_distance, average(c1.entry_speed, c1.min_speed))
        time_braking_2 ==
            phase_time(c2.brake_distance, average(c2.entry_speed, c2.min_speed))
        braking_delta == RSub(time_braking_1, time_braking_2)
        time_apex_1 == phase_time(R(ApexDistance), c1.min_speed)
        time_apex_2 == phase_time(R(ApexDistance), c2.min_speed)
        mid_corner_delta == RSub(time_apex_1, time_apex_2)
        time_traction_1 ==
            phase_time(c1.throttle_reapply_distance, average(c1.min_speed, c1.exit_speed))
        time_traction_2 ==
            phase_time(c2.throttle_reapply_distance, average(c2.min_speed, c2.exit_speed))
        traction_delta == RSub(time_traction_1, time_traction_2)
    IN  [status |-> "ok",
         corner_id |-> c1.corner_id,
         total_delta |-> total_of(braking_delta, mid_corner_delta, traction_delta),
         braking_contribution |-> braking_delta,
         mid_corner_contribution |-> mid_corner_delta,
         traction_contribution |-> traction_delta,
         dominant_phase |->
             dominant_phase_of(braking_delta, mid_corner_delta, traction_delta)]

InitDecomp ==
    /\ telemetry1 = Unused
    /\ telemetry2 = Unused
    /\ config = Unused
    /\ corner1 \in DecompCorners
    /\ corner2 \in DecompCorners
    /\ aligned = NotRun
    /\ delta_time = NotRun
    /\ zones = NotRun
    /\ corners = NotRun
    /\ decomposition = NotRun
    /\ arguments = Unused
    /\ result = NotRun

DecomposeCornerDelta ==
    /\ decomposition = NotRun
    /\ decomposition' = decompose_corner_delta(corner1, corner2)
    /\ UNCHANGED <<telemetry1, telemetry2, config, corner1, corner2,
                   aligned, delta_time, zones, corners,
                   arguments, result>>

NextDecomp == DecomposeCornerDelta

SpecDecomp == InitDecomp /\ [][NextDecomp]_vars

-----------------------------------------------------------------------------
(* Properties of decompose_corner_delta                                    *)

\* C5: total_delta is exactly the sum of the braking, mid-corner and
\* traction contributions of the returned CornerDecomposition.
C5_DecompositionSum ==
    decomposition # NotRun =>
        decomposition.total_delta =
            RAdd(RAdd(decomposition.braking_contribution,
                      decomposition.mid_corner_contribution),
                 decomposition.traction_contribution)

\* C5 witness: a decomposition whose three contributions are all non-zero.
C5_Witness ==
    /\ decomposition # NotRun
    /\ decomposition.braking_contribution # R(0)
    /\ decomposition.mid_corner_contribution # R(0)
    /\ decomposition.traction_contribution # R(0)
    /\ decomposition.total_delta # R(0)

\* The absolute contributions of the returned decomposition, by phase.
AbsContribution(phase) ==
    RAbs(CASE phase = "braking" -> decomposition.braking_contribution
           [] phase = "mid_corner" -> decomposition.mid_corner_contribution
           [] phase = "traction" -> decomposition.traction_contribution)

PhaseOrder == <<"braking", "mid_corner", "traction">>

\* C6: dominant_phase is "neutral" exactly when all three absolute
\* contributions are below 0.01 s; otherwise it is the phase with the
\* largest absolute contribution, the earliest of braking, mid_corner,
\* traction among those that share the largest value.
C6_DominantPhase ==
    decomposition # NotRun =>
        LET allSmall == \A k \in 1..3 : RLt(AbsContribution(PhaseOrder[k]), <<1, 100>>)
        IN  /\ (decomposition.dominant_phase = "neutral") <=> allSmall
            /\ ~allSmall =>
                 \E k \in 1..3 :
                    /\ decomposition.dominant_phase = PhaseOrder[k]
                    /\ \A j \in 1..3 :
                          RLe(AbsContribution(PhaseOrder[j]), AbsContribution(PhaseOrder[k]))
                    /\ \A j \in 1..(k - 1) :
                          RLt(AbsContribution(PhaseOrder[j]), AbsContribution(PhaseOrder[k]))

\* C6 witness: mid-corner and traction share the largest absolute
\* contribution, which is at least 0.01 s, braking contributes less but
\* not nothing, and mid_corner is reported.
C6_Witness ==
    /\ decomposition # NotRun
    /\ AbsContribution("mid_corner") = AbsContribution("traction")
    /\ RGe(AbsContribution("mid_corner"), <<1, 100>>)
    /\ RLt(AbsContribution("braking"), AbsContribution("mid_corner"))
    /\ RGt(AbsContribution("braking"), R(0))
    /\ decomposition.dominant_phase = "mid_corner"

-----------------------------------------------------------------------------
(* braking_zones.py: detect_braking_zones                                  *)

\* Longest trace handed to detect_braking_zones.
MaxBrakeLen == 7

\* Defaults of the keyword arguments of detect_braking_zones, and of
\* Config.brake_threshold.
DefaultBrakeThreshold == 10
DefaultMinZoneLength == 20
DefaultMinSpeedDrop == 20
ConfigBrakeThreshold == 10

\* The traces handed to detect_braking_zones lie on a uniform distance grid
\* of 10 m or 20 m steps starting at 0, with speeds (km/h) and brake inputs
\* (%) from these sets; a trace has the Brake column or lacks it.
GridSteps == {R(10), R(20)}
BrakeSpeeds == {R(100), R(200)}
BrakeInputs == {R(0), R(50)}

\* The trace with or without the Brake column on the grid of the given step.
BrakeTrace(step, speed, brake, with_brake) ==
    [i \in 1..Len(speed) |->
        IF with_brake
        THEN [Distance |-> RMul(R(i - 1), step), Speed |-> speed[i], Brake |-> brake[i]]
        ELSE [Distance |-> RMul(R(i - 1), step), Speed |-> speed[i]]]

\* "col in telemetry.columns"
has_column(telemetry, col) == telemetry # <<>> /\ col \in DOMAIN telemetry[1]

\* speed[a : b + 1] for 0-based a <= b
Slice(s, a, b) == SubSeq(s, a + 1, b + 1)

\* np.mean of a non-empty array
RECURSIVE SeqSum(_)
SeqSum(s) == IF s = <<>> THEN R(0) ELSE RAdd(s[1], SeqSum(Tail(s)))
mean(s) == RDiv(SeqSum(s), R(Len(s)))

\* A validation that accepts a candidate meeting either minimum.
zone_accepted_either(zone_length, speed_drop, min_zone_length, min_speed_drop) ==
    RGe(zone_length, min_zone_length) \/ RGe(speed_drop, min_speed_drop)

\* zone_length >= min_zone_length and speed_drop >= min_speed_drop
zone_accepted(zone_length, speed_drop, min_zone_length, min_speed_drop) ==
    RGe(zone_length, min_zone_length) /\ RGe(speed_drop, min_speed_drop)

\* A BrakingZone that reaches one sample further, to the sample that ended
\* the braking.
BrakingZoneThroughRelease(zone_id, distance, speed, zone_start_idx, zone_end_idx) ==
    LET zone_distances == Slice(distance, zone_start_idx, zone_end_idx + 1)
        zone_speeds == Slice(speed, zone_start_idx, zone_end_idx + 1)
    IN  [zone_id |-> zone_id,
         start_distance |-> zone_distances[1],
         end_distance |-> zone_distances[Len(zone_distances)],
         entry_speed |-> zone_speeds[1],
         min_speed |-> SeqMin(zone_speeds),
         exit_speed |-> zone_speeds[Len(zone_speeds)],
         max_decel |-> R(0),
         duration |-> R(0)]

\* The BrakingZone built when a candidate is accepted.  The traces of the
\* model have no LongAccel column, so max_decel is 0.0.
BrakingZone(zone_id, distance, speed, zone_start_idx, zone_end_idx) ==
    LET zone_distances == Slice(distance, zone_start_idx, zone_end_idx)
        zone_speeds == Slice(speed, zone_start_idx, zone_end_idx)
        zone_length == RSub(At(distance, zone_end_idx), At(distance, zone_start_idx))
        avg_speed == mean(zone_speeds)
    IN  [zone_id |-> zone_id,
         start_distance |-> zone_distances[1],
         end_distance |-> zone_distances[Len(zone_distances)],
         entry_speed |-> zone_speeds[1],
         min_speed |-> SeqMin(zone_speeds),
         exit_speed |-> zone_speeds[Len(zone_speeds)],
         max_decel |-> R(0),
         duration |-> IF RGt(avg_speed, R(0))
                      THEN RDiv(zone_length, RDiv(avg_speed, <<36, 10>>))
                      ELSE R(0)]

\* One iteration of the scan, for index i: st holds the loop's variables
\* zones, in_zone, zone_start_idx and zone_id.
scan_step(st, i, distance, speed, brake, args) ==
    LET braking == RGt(At(brake, i), args.brake_threshold)
    IN  IF braking /\ ~st.in_zone
        THEN [st EXCEPT !.in_zone = TRUE, !.zone_start_idx = i]
        ELSE IF ~braking /\ st.in_zone
        THEN LET zone_end_idx == i - 1
                 zone_length ==
                    RSub(At(distance, zone_end_idx), At(distance, st.zone_start_idx))
                 speed_drop ==
                    RSub(At(speed, st.zone_start_idx),
                         SeqMin(Slice(speed, st.zone_start_idx, zone_end_idx)))
             IN  IF zone_accepted(zone_length, speed_drop,
                                  args.min_zone_length, args.min_speed_drop)
                 THEN [st EXCEPT
                         !.zones = Append(@, BrakingZone(st.zone_id, distance, speed,
                                                         st.zone_start_idx, zone_end_idx)),
                         !.zone_id = @ + 1,
                         !.in_zone = FALSE]
                 ELSE [st EXCEPT !.in_zone = FALSE]
        ELSE st

\* for i in range(1, len(telemetry)): the state after iterations 1 .. last
RECURSIVE scan(_, _, _, _, _)
scan(last, distance, speed, brake, args) ==
    IF last < 1
    THEN [zones |-> <<>>, in_zone |-> FALSE, zone_start_idx |-> 0, zone_id |-> 1]
    ELSE CHOOSE after \in {scan_step(st, last, distance, speed, brake, args) :
                            st \in {scan(last - 1, distance, speed, brake, args)}} : TRUE

\* detect_braking_zones(telemetry, config, brake_threshold, min_zone_length,
\* min_speed_drop): the list of zones.  args holds the Config passed and the
\* three keyword arguments; the Config is not read.  result is the value
\* returned to the caller, log the records handed to the module's logger.
detect_braking_zones(telemetry, args) ==
    IF ~has_column(telemetry, "Brake")
    THEN [status |-> "ok", result |-> <<>>,
          log |-> <<"Brake channel not available, cannot detect braking zones">>]
    ELSE [status |-> "ok", log |-> <<>>,
          result |-> scan(Len(telemetry) - 1,
                          Column(telemetry, "Distance"), Column(telemetry, "Speed"),
                          Column(telemetry, "Brake"), args).zones]

InitBrake ==
    /\ \E n \in 1..MaxBrakeLen, step \in GridSteps :
          \E speed \in [1..n -> BrakeSpeeds] :
             \/ \E brake \in [1..n -> BrakeInputs] :
                   telemetry1 = BrakeTrace(step, speed, brake, TRUE)
             \/ telemetry1 = BrakeTrace(step, speed, speed, FALSE)
    /\ telemetry2 = Unused
    /\ config = [config |-> [brake_threshold |-> R(ConfigBrakeThreshold)],
                 brake_threshold |-> R(DefaultBrakeThreshold),
                 min_zone_length |-> R(DefaultMinZoneLength),
                 min_speed_drop |-> R(DefaultMinSpeedDrop)]
    /\ corner1 = Unused
    /\ corner2 = Unused
    /\ aligned = NotRun
    /\ delta_time = NotRun
    /\ zones = NotRun
    /\ corners = NotRun
    /\ decomposition = NotRun
    /\ arguments = Unused
    /\ result = NotRun

DetectBrakingZones ==
    /\ zones = NotRun
    /\ zones' = detect_braking_zones(telemetry1, config)
    /\ UNCHANGED <<telemetry1, telemetry2, config, corner1, corner2,
                   aligned, delta_time, corners, decomposition,
                   arguments, result>>

NextBrake == DetectBrakingZones

SpecBrake == InitBrake /\ [][NextBrake]_vars

-----------------------------------------------------------------------------
(* Properties of detect_braking_zones                                      *)

\* Is sample i (0-based) of the input trace a braking sample?
IsBraking(i) == RGt(At(telemetry1, i).Brake, config.brake_threshold)

\* The maximal runs <<s, e>> of consecutive braking samples of the input.
MaximalRuns ==
    {se \in (0..(Len(telemetry1) - 1)) \X (0..(Len(telemetry1) - 1)) :
        /\ se[1] <= se[2]
        /\ \A i \in se[1]..se[2] : IsBraking(i)
        /\ se[1] = 0 \/ ~IsBraking(se[1] - 1)
        /\ se[2] = Len(telemetry1) - 1 \/ ~IsBraking(se[2] + 1)}

\* A run meets the length and speed-drop minimums.
Qualifies(se) ==
    /\ RGe(RSub(At(telemetry1, se[2]).Distance, At(telemetry1, se[1]).Distance),
           config.min_zone_length)
    /\ RGe(RSub(At(telemetry1, se[1]).Speed,
                SeqMin(Slice(Column(telemetry1, "Speed"), se[1], se[2]))),
           config.min_speed_drop)

QualifyingRuns == {se \in MaximalRuns : Qualifies(se)}

\* The k-th qualifying run in encounter order, k = 1, 2, ...
RunNumber(se) == Cardinality({x \in QualifyingRuns : x[1] <= se[1]})

\* C9: exactly one zone per qualifying maximal run of braking samples,
\* wherever the run lies in the trace, in encounter order, with zone_id
\* 1, 2, ..., k.
C9_OneZonePerRun ==
    (zones # NotRun /\ has_column(telemetry1, "Brake")) =>
        /\ Len(zones.result) = Cardinality(QualifyingRuns)
        /\ \A se \in QualifyingRuns :
              LET z == zones.result[RunNumber(se)]
              IN  /\ z.zone_id = RunNumber(se)
                  /\ z.start_distance = At(telemetry1, se[1]).Distance
                  /\ z.end_distance = At(telemetry1, se[2]).Distance

\* C10: no returned zone is shorter than min_zone_length or has a speed drop
\* below min_speed_drop, and the ids are 1, 2, ..., k: a discarded candidate
\* consumes no id.
C10_ZonesMeetMinimums ==
    zones # NotRun =>
        \A k \in 1..Len(zones.result) :
            LET z == zones.result[k]
            IN  /\ RGe(RSub(z.end_distance, z.start_distance), config.min_zone_length)
                /\ RGe(RSub(z.entry_speed, z.min_speed), config.min_speed_drop)
                /\ z.zone_id = k

\* C10 witness: a run of braking samples that has the length but not the
\* speed drop is discarded, and the run after it is returned with id 1.
C10_Witness ==
    /\ zones # NotRun
    /\ Len(zones.result) = 1
    /\ zones.result[1].zone_id = 1
    /\ \E a \in MaximalRuns \ QualifyingRuns :
          /\ a[1] >= 1
          /\ RLt(At(telemetry1, a[2]).Distance, zones.result[1].start_distance)
          /\ RGe(RSub(At(telemetry1, a[2]).Distance, At(telemetry1, a[1]).Distance),
                 config.min_zone_length)
          /\ RLt(RSub(At(telemetry1, a[1]).Speed,
                      SeqMin(Slice(Column(telemetry1, "Speed"), a[1], a[2]))),
                 config.min_speed_drop)

-----------------------------------------------------------------------------
(* corners.py: detect_corners, get_circuit_corners, _analyze_corner        *)

\* Longest trace handed to corner detection.
MaxCornerLen == 5

\* Config defaults read by corner detection, the default of the
\* min_speed_threshold argument of detect_corners, and the constants of
\* _analyze_corner and get_circuit_corners.
SmoothingWindow == 11
SmoothingPolyorder == 3
CornerProminence == 10
CornerMinDistance == 20
MinSpeedThreshold == 100
LookWindow == 100
ThrottleThreshold == 95
SearchWindow == 50
SlowSpeed == 80
MediumSpeed == 150

\* The traces handed to corner detection lie on a uniform 10 m grid, with
\* speeds (km/h) from CornerSpeeds; at each sample the driver either brakes
\* (Brake 50 %, Throttle 0 %) or is on full throttle (Brake 0 %, Throttle
\* 100 %).
CornerGridStep == R(10)
CornerSpeeds == {R(10), R(15), R(50)}
Pedals == {[Brake |-> R(50), Throttle |-> R(0)], [Brake |-> R(0), Throttle |-> R(100)]}

CornerTrace(speed, pedal) ==
    [i \in 1..Len(speed) |->
        [Distance |-> RMul(R(i - 1), CornerGridStep), Speed |-> speed[i],
         Brake |-> pedal[i].Brake, Throttle |-> pedal[i].Throttle]]

\* What session.get_circuit_info() gives get_circuit_corners: it raises, it
\* returns None, it returns an object without (or with an empty) corner
\* table, or it returns a corner table, each row a marker with a Number and
\* a Distance (a rational, or "NaN").
Sessions ==
    {[circuit_info |-> "raises"], [circuit_info |-> "None"],
     [circuit_info |-> "no_corners"],
     [circuit_info |-> "corners",
      corners |-> <<[Number |-> 1, Distance |-> "NaN"]>>],
     [circuit_info |-> "corners",
      corners |-> <<[Number |-> 1, Distance |-> R(20)]>>],
     [circuit_info |-> "corners",
      corners |-> <<[Number |-> 2, Distance |-> R(45)],
                    [Number |-> 1, Distance |-> R(0)]>>]}

\* smooth_signal: a signal shorter than window_length is returned as it
\* is.  The traces of the model are shorter than Config.smoothing_window,
\* so the Savitzky-Golay branch is outside the model.
smooth_signal(signal, window_length, polyorder) ==
    CASE Len(signal) < window_length -> signal

\* The elements of a set of integers in increasing order.
RECURSIVE SortedSeq(_)
SortedSeq(S) ==
    IF S = {} THEN <<>>
    ELSE LET m == CHOOSE x \in S : \A y \in S : x <= y
         IN  <<m>> \o SortedSeq(S \ {m})

\* scipy _local_maxima_1d: the 0-based midpoints of the plateaus of x that
\* are higher than both neighbours; a plateau touching an end is no peak.
local_maxima(x) ==
    LET n == Len(x)
        plateaus ==
            {lr \in (1..(n - 2)) \X (1..(n - 2)) :
                /\ lr[1] <= lr[2]
                /\ \A i \in lr[1]..lr[2] : At(x, i) = At(x, lr[1])
                /\ RLt(At(x, lr[1] - 1), At(x, lr[1]))
                /\ RLt(At(x, lr[2] + 1), At(x, lr[2]))}
    IN  SortedSeq({(lr[1] + lr[2]) \div 2 : lr \in plateaus})

\* np.argsort(priority) for the short arrays of the model (a stable
\* insertion sort): the 1-based position in the array that comes i-th.
argsort(priority) ==
    LET rank(j) == Cardinality({k \in 1..Len(priority) :
                        \/ RLt(priority[k], priority[j])
                        \/ priority[k] = priority[j] /\ k < j}) + 1
    IN  [i \in 1..Len(priority) |-> CHOOSE j \in 1..Len(priority) : rank(j) = i]

\* scipy _select_by_peak_distance: the keep flags after the peaks of rank
\* i, i + 1, ... have been visited, highest priority first; a kept peak
\* removes the peaks closer than distance to it.
RECURSIVE select_from(_, _, _, _)
select_from(i, peaks, order, distance) ==
    IF i > Len(peaks) THEN [k \in 1..Len(peaks) |-> TRUE]
    ELSE LET visit(keep) ==
                 LET j == order[i]
                 IN  IF ~keep[j] THEN keep
                     ELSE [k \in 1..Len(peaks) |->
                             IF k # j /\ Abs(peaks[j] - peaks[k]) < distance
                             THEN FALSE ELSE keep[k]]
         IN  CHOOSE out \in {visit(keep) :
                             keep \in {select_from(i + 1, peaks, order, distance)}} : TRUE

select_by_peak_distance(peaks, priority, distance) ==
    LET keep == select_from(1, peaks, argsort(priority), distance)
    IN  SelectSeq(peaks, LAMBDA p : \E k \in 1..Len(peaks) : peaks[k] = p /\ keep[k])

\* scipy _peak_prominences (wlen = -1) of the peak at 0-based index peak:
\* x[peak] minus the higher of the two bases, each base the lowest value
\* between the peak and the nearest higher sample on that side.
peak_prominence(x, peak) ==
    LET n == Len(x)
        left == CHOOSE l \in 0..peak :
                   /\ \A i \in l..peak : RLe(At(x, i), At(x, peak))
                   /\ l = 0 \/ RGt(At(x, l - 1), At(x, peak))
        right == CHOOSE r \in peak..(n - 1) :
                   /\ \A i \in peak..r : RLe(At(x, i), At(x, peak))
                   /\ r = n - 1 \/ RGt(At(x, r + 1), At(x, peak))
        left_min == SeqMin(Slice(x, left, peak))
        right_min == SeqMin(Slice(x, peak, right))
    IN  RSub(At(x, peak), RMax(left_min, right_min))

\* scipy.signal.find_peaks(x, prominence, distance, height): the local
\* maxima filtered by height, then by distance, then by prominence.
find_peaks(x, prominence, distance, height) ==
    LET by_height == SelectSeq(local_maxima(x), LAMBDA p : RGe(At(x, p), height))
        by_distance ==
            select_by_peak_distance(by_height,
                                    [k \in 1..Len(by_height) |-> At(x, by_height[k])],
                                    distance)
    IN  SelectSeq(by_distance, LAMBDA p : RGe(peak_prominence(x, p), prominence))

\* _analyze_corner, entry search: for i in range(apex_idx - 1,
\* apex_idx - lookback_max, -1), the first i with brake[i] below and
\* brake[i + 1] at or above the threshold gives entry_idx = i + 1;
\* entry_idx stays apex_idx when there is none.
find_entry_idx(apex_idx, brake, brake_threshold) ==
    LET lookback_max == IF LookWindow < apex_idx THEN LookWindow ELSE apex_idx
        found == {i \in (apex_idx - lookback_max + 1)..(apex_idx - 1) :
                    /\ RLt(At(brake, i), brake_threshold)
                    /\ RGe(At(brake, i + 1), brake_threshold)}
    IN  IF found = {} THEN apex_idx
        ELSE (CHOOSE i \in found : \A j \in found : j <= i) + 1

\* An exit search that starts at the first sample of the trace.
find_exit_idx_from_start(apex_idx, throttle) ==
    LET rest == Len(throttle) - apex_idx - 1
        lookforward_max == IF LookWindow < rest THEN LookWindow ELSE rest
        found == {i \in 0..(apex_idx + lookforward_max - 1) :
                    RGe(At(throttle, i), R(ThrottleThreshold))}
    IN  IF found = {} THEN apex_idx
        ELSE CHOOSE i \in found : \A j \in found : i <= j

\* _analyze_corner, exit search: for i in range(apex_idx + 1,
\* apex_idx + lookforward_max), the first i with throttle[i] >= 95 gives
\* exit_idx = i; exit_idx stays apex_idx when there is none.
find_exit_idx(apex_idx, throttle) ==
    LET rest == Len(throttle) - apex_idx - 1
        lookforward_max == IF LookWindow < rest THEN LookWindow ELSE rest
        found == {i \in (apex_idx + 1)..(apex_idx + lookforward_max - 1) :
                    RGe(At(throttle, i), R(ThrottleThreshold))}
    IN  IF found = {} THEN apex_idx
        ELSE CHOOSE i \in found : \A j \in found : i <= j

\* _analyze_corner: the Corner of the apex at apex_idx.
analyze_corner(corner_id, apex_idx, distance, speed, brake, throttle, acceleration, cfg) ==
    LET apex_distance == At(distance, apex_idx)
        min_speed == At(speed, apex_idx)
        entry_idx == find_entry_idx(apex_idx, brake, cfg.brake_threshold)
        exit_idx == find_exit_idx(apex_idx, throttle)
        entry_distance == At(distance, entry_idx)
        exit_distance == At(distance, exit_idx)
        braking_zone_accel == SubSeq(acceleration, entry_idx + 1, apex_idx)
    IN  [corner_id |-> corner_id,
         apex_idx |-> apex_idx,
         apex_distance |-> apex_distance,
         entry_idx |-> entry_idx,
         entry_distance |-> entry_distance,
         exit_idx |-> exit_idx,
         exit_distance |-> exit_distance,
         entry_speed |-> At(speed, entry_idx),
         min_speed |-> min_speed,
         exit_speed |-> At(speed, exit_idx),
         brake_start_distance |-> entry_distance,
         brake_distance |-> RSub(apex_distance, entry_distance),
         peak_deceleration |->
             IF Len(braking_zone_accel) > 0 THEN SeqMin(braking_zone_accel) ELSE R(0),
         throttle_reapply_distance |-> RSub(exit_distance, apex_distance),
         corner_type |-> IF RLt(min_speed, R(SlowSpeed)) THEN "slow"
                         ELSE IF RLt(min_speed, R(MediumSpeed)) THEN "medium"
                         ELSE "fast"]

\* np.zeros_like(speed): the traces of the model have no Acceleration column
zeros_like(speed) == [i \in 1..Len(speed) |-> R(0)]

\* -speed_smooth
negated(signal) == [i \in 1..Len(signal) |-> RNeg(signal[i])]

\* detect_corners(telemetry, min_speed_threshold, config): the list of
\* Corner records, one per minimum found, numbered from 1 in order.
detect_corners(telemetry, min_speed_threshold, cfg) ==
    LET speed == Column(telemetry, "Speed")
        distance == Column(telemetry, "Distance")
        brake == Column(telemetry, "Brake")
        throttle == Column(telemetry, "Throttle")
        speed_smooth == smooth_signal(speed, cfg.smoothing_window, cfg.smoothing_polyorder)
        minima_indices ==
            find_peaks(negated(speed_smooth), cfg.corner_prominence,
                       cfg.corner_min_distance, RNeg(min_speed_threshold))
    IN  [corner_num \in 1..Len(minima_indices) |->
            analyze_corner(corner_num, minima_indices[corner_num], distance, speed,
                           brake, throttle, zeros_like(speed), cfg)]

\* np.argmin(values): the first index of the smallest value
argmin(values) ==
    CHOOSE i \in 0..(Len(values) - 1) :
        /\ \A j \in 0..(Len(values) - 1) : RLe(At(values, i), At(values, j))
        /\ \A j \in 0..(i - 1) : RGt(At(values, j), At(values, i))

\* get_circuit_corners, per marker: the telemetry sample nearest to the
\* marker's distance, moved to the lowest speed within search_window samples.
marker_apex_idx(corner_distance, distance, speed) ==
    LET nearest == argmin([k \in 1..Len(distance) |->
                              RAbs(RSub(distance[k], corner_distance))])
        start_idx == IF nearest - SearchWindow > 0 THEN nearest - SearchWindow ELSE 0
        end_idx == IF nearest + SearchWindow < Len(speed)
                   THEN nearest + SearchWindow ELSE Len(speed)
        window_speeds == SubSeq(speed, start_idx + 1, end_idx)
    IN  IF Len(window_speeds) > 0 THEN start_idx + argmin(window_speeds) ELSE nearest

\* list.sort(key=lambda c: c.corner_id): a stable sort by corner_id
RECURSIVE sort_by_corner_id(_)
sort_by_corner_id(cs) ==
    IF cs = <<>> THEN <<>>
    ELSE LET m == CHOOSE i \in 1..Len(cs) :
                     /\ \A j \in 1..Len(cs) : cs[i].corner_id <= cs[j].corner_id
                     /\ \A j \in 1..(i - 1) : cs[j].corner_id > cs[i].corner_id
             rest == [k \in 1..(Len(cs) - 1) |-> IF k < m THEN cs[k] ELSE cs[k + 1]]
         IN  <<cs[m]>> \o sort_by_corner_id(rest)

\* get_circuit_corners(session, telemetry, config): the marker-seeded
\* corners sorted by corner_id, or the result of detect_corners when the
\* circuit info is missing or something raises (np.argmin of an empty
\* Distance column does).  Markers without a distance are skipped.
get_circuit_corners(session, telemetry, cfg) ==
    IF session.circuit_info # "corners"
    THEN detect_corners(telemetry, R(MinSpeedThreshold), cfg)
    ELSE LET speed == Column(telemetry, "Speed")
             distance == Column(telemetry, "Distance")
             brake == Column(telemetry, "Brake")
             throttle == Column(telemetry, "Throttle")
             usable == SelectSeq(session.corners, LAMBDA row : row.Distance # "NaN")
         IN  IF usable # <<>> /\ telemetry = <<>>
             THEN detect_corners(telemetry, R(MinSpeedThreshold), cfg)
             ELSE sort_by_corner_id(
                    [k \in 1..Len(usable) |->
                        analyze_corner(usable[k].Number,
                                       marker_apex_idx(usable[k].Distance, distance, speed),
                                       distance, speed, brake, throttle,
                                       zeros_like(speed), cfg)])

DefaultConfig ==
    [smoothing_window |-> SmoothingWindow,
     smoothing_polyorder |-> SmoothingPolyorder,
     brake_threshold |-> R(ConfigBrakeThreshold),
     corner_prominence |-> R(CornerProminence),
     corner_min_distance |-> CornerMinDistance]

InitCorner ==
    /\ \E n \in 0..MaxCornerLen :
          \E speed \in [1..n -> CornerSpeeds], pedal \in [1..n -> Pedals] :
             telemetry1 = CornerTrace(speed, pedal)
    /\ telemetry2 = Unused
    /\ config = DefaultConfig
    /\ corner1 = Unused
    /\ corner2 = Unused
    /\ aligned = NotRun
    /\ delta_time = NotRun
    /\ zones = NotRun
    /\ corners = NotRun
    /\ decomposition = NotRun
    /\ arguments = Unused
    /\ result = NotRun

\* detect_corners(telemetry, config=config)
DetectCorners ==
    /\ corners = NotRun
    /\ corners' = [status |-> "ok", call |-> "detect_corners",
                   result |-> detect_corners(telemetry1, R(MinSpeedThreshold), config)]
    /\ UNCHANGED <<telemetry1, telemetry2, config, corner1, corner2,
                   aligned, delta_time, zones, decomposition,
                   arguments, result>>

\* get_circuit_corners(session, telemetry, config)
GetCircuitCorners ==
    /\ corners = NotRun
    /\ \E session \in Sessions :
          corners' = [status |-> "ok", call |-> "get_circuit_corners",
                      session |-> session,
                      result |-> get_circuit_corners(session, telemetry1, config)]
    /\ UNCHANGED <<telemetry1, telemetry2, config, corner1, corner2,
                   aligned, delta_time, zones, decomposition,
                   arguments, result>>

NextCorner == DetectCorners \/ GetCircuitCorners

SpecCorner == InitCorner /\ [][NextCorner]_vars

-----------------------------------------------------------------------------
(* Properties of corner analysis                                           *)

\* C7: every Corner produced (by either path) has entry_idx <= apex_idx <=
\* exit_idx, all three valid indices of the trace, and entry_distance <=
\* apex_distance <= exit_distance, so brake_distance and
\* throttle_reapply_distance are not negative.
C7_CornerOrdering ==
    corners # NotRun =>
        \A k \in 1..Len(corners.result) :
            LET c == corners.result[k]
            IN  /\ 0 <= c.entry_idx /\ c.entry_idx <= c.apex_idx
                /\ c.apex_idx <= c.exit_idx /\ c.exit_idx <= Len(telemetry1) - 1
                /\ RLe(c.entry_distance, c.apex_distance)
                /\ RLe(c.apex_distance, c.exit_distance)
                /\ RGe(c.brake_distance, R(0))
                /\ RGe(c.throttle_reapply_distance, R(0))
                /\ c.entry_distance = At(telemetry1, c.entry_idx).Distance
                /\ c.apex_distance = At(telemetry1, c.apex_idx).Distance
                /\ c.exit_distance = At(telemetry1, c.exit_idx).Distance

\* C7 witness: the peak-detection path finds a corner whose braking starts
\* before its apex.
C7_Witness ==
    /\ corners # NotRun
    /\ corners.call = "detect_corners"
    /\ \E k \in 1..Len(corners.result) :
          /\ corners.result[k].entry_idx < corners.result[k].apex_idx
          /\ RGt(corners.result[k].brake_distance, R(0))

-----------------------------------------------------------------------------
(* braking_zones.py: compare_braking_zones, get_top_braking_differences    *)

\* Longest list of braking zones handed to compare_braking_zones.
MaxZones == 3

DefaultDistanceTolerance == 50

\* The zone lists handed to compare_braking_zones are lists as
\* detect_braking_zones returns them: zone_id 1..k, start distances
\* increasing.  A zone of the model brakes for 10 m from its start, from
\* its entry speed down to half of it.
ZoneStarts == {R(100), R(120), R(140), R(150), R(200)}
ZoneEntrySpeeds == {R(100), R(200)}

ZoneList(start, entry) ==
    [k \in 1..Len(start) |->
        [zone_id |-> k,
         start_distance |-> start[k],
         end_distance |-> RAdd(start[k], R(10)),
         entry_speed |-> entry[k],
         min_speed |-> RDiv(entry[k], R(2)),
         exit_speed |-> RDiv(entry[k], R(2)),
         max_decel |-> R(-3),
         duration |-> <<1, 2>>]]

ZoneLists ==
    UNION {{ZoneList(start, entry) :
                start \in {st \in [1..n -> ZoneStarts] :
                              \A k \in 1..(n - 1) : RLt(st[k], st[k + 1])},
                entry \in [1..n -> ZoneEntrySpeeds]} : n \in 0..MaxZones}

\* A matching that takes the first zone of driver 2 within the tolerance.
best_match_first_within(z1, zones2, distance_tolerance) ==
    LET within == {k \in 1..Len(zones2) :
                      RLt(RAbs(RSub(z1.start_distance, zones2[k].start_distance)),
                          distance_tolerance)}
    IN  IF within = {} THEN 0 ELSE CHOOSE k \in within : \A j \in within : k <= j

\* compare_braking_zones, inner loop: the position in zones2 of best_match
\* (0 for None).  A zone replaces the match held when its diff is below
\* min_diff and below distance_tolerance, so the first of the nearest zones
\* is kept.
best_match(z1, zones2, distance_tolerance) ==
    LET diff(k) == RAbs(RSub(z1.start_distance, zones2[k].start_distance))
        within == {k \in 1..Len(zones2) : RLt(diff(k), distance_tolerance)}
    IN  IF within = {} THEN 0
        ELSE CHOOSE k \in within :
                /\ \A j \in within : RLe(diff(k), diff(j))
                /\ \A j \in within : j < k => RLt(diff(k), diff(j))

\* df["Approx_Time_Delta_s"]
approx_time_delta(row) ==
    LET speed_sum == RAdd(row.Entry_Speed_Driver1, row.Entry_Speed_Driver2)
    IN  IF RGt(speed_sum, R(0))
        THEN RDiv(RSub(row.Start_Dist_Driver1, row.Start_Dist_Driver2),
                  RDiv(RDiv(speed_sum, R(2)), <<18, 5>>))
        ELSE R(0)

\* The row compare_braking_zones builds for z1 and its match.
comparison_row(z1, z2) ==
    LET comp ==
            [Zone_ID |-> z1.zone_id,
             Start_Dist_Driver1 |-> z1.start_distance,
             Start_Dist_Driver2 |-> z2.start_distance,
             Brake_Start_Delta_m |-> RSub(z1.start_distance, z2.start_distance),
             Entry_Speed_Driver1 |-> z1.entry_speed,
             Entry_Speed_Driver2 |-> z2.entry_speed,
             Entry_Speed_Delta |-> RSub(z1.entry_speed, z2.entry_speed),
             Min_Speed_Driver1 |-> z1.min_speed,
             Min_Speed_Driver2 |-> z2.min_speed,
             Min_Speed_Delta |-> RSub(z1.min_speed, z2.min_speed),
             Exit_Speed_Driver1 |-> z1.exit_speed,
             Exit_Speed_Driver2 |-> z2.exit_speed,
             Exit_Speed_Delta |-> RSub(z1.exit_speed, z2.exit_speed),
             Max_Decel_Driver1 |-> z1.max_decel,
             Max_Decel_Driver2 |-> z2.max_decel,
             Max_Decel_Delta |-> RSub(z1.max_decel, z2.max_decel),
             Duration_Driver1 |-> z1.duration,
             Duration_Driver2 |-> z2.duration,
             Duration_Delta |-> RSub(z1.duration, z2.duration)]
    IN  [c \in DOMAIN comp \cup {"Approx_Time_Delta_s"} |->
            IF c = "Approx_Time_Delta_s" THEN approx_time_delta(comp) ELSE comp[c]]

\* A matching in which a driver-2 zone that has been matched is taken out
\* of the list for the driver-1 zones that follow.
RECURSIVE compare_braking_zones_consuming(_, _, _)
compare_braking_zones_consuming(zones1, zones2, distance_tolerance) ==
    IF zones1 = <<>> THEN <<>>
    ELSE LET z1 == Head(zones1)
             m == best_match(z1, zones2, distance_tolerance)
             left == SelectSeq(zones2, LAMBDA z2 : m = 0 \/ z2 # zones2[m])
             rest == compare_braking_zones_consuming(Tail(zones1), left,
                                                     distance_tolerance)
         IN  IF m # 0 THEN <<comparison_row(z1, zones2[m])>> \o rest ELSE rest

\* compare_braking_zones(zones1, zones2, distance_tolerance): the rows of
\* the DataFrame returned, in order (no rows: the empty DataFrame).
RECURSIVE compare_braking_zones(_, _, _)
compare_braking_zones(zones1, zones2, distance_tolerance) ==
    IF zones1 = <<>> THEN <<>>
    ELSE LET z1 == Head(zones1)
             m == best_match(z1, zones2, distance_tolerance)
             rest == compare_braking_zones(Tail(zones1), zones2, distance_tolerance)
         IN  IF m # 0 THEN <<comparison_row(z1, zones2[m])>> \o rest ELSE rest

InitCompare ==
    /\ StagesIdle
    /\ \E zones1 \in ZoneLists, zones2 \in ZoneLists :
          arguments = [zones1 |-> zones1, zones2 |-> zones2,
                  distance_tolerance |-> R(DefaultDistanceTolerance)]
    /\ result = NotRun

\* compare_braking_zones(zones1, zones2)
CompareBrakingZones ==
    /\ result = NotRun
    /\ result' = [status |-> "ok", call |-> "compare_braking_zones",
                  df |-> compare_braking_zones(arguments.zones1, arguments.zones2,
                                               arguments.distance_tolerance)]
    /\ UNCHANGED <<stage_vars, arguments>>

NextCompare == CompareBrakingZones

SpecCompare == InitCompare /\ [][NextCompare]_vars

\* |start_distance_1 - start_distance_2| of a pair of zones
StartDiff(z1, z2) == RAbs(RSub(z1.start_distance, z2.start_distance))

\* The zones of driver 1 that have a zone of driver 2 less than the
\* tolerance away, in order.
Matchable ==
    SelectSeq(arguments.zones1,
              LAMBDA z1 : \E k \in 1..Len(arguments.zones2) :
                             RLt(StartDiff(z1, arguments.zones2[k]), arguments.distance_tolerance))

-----------------------------------------------------------------------------
(* binary64 arithmetic                                                     *)

\* Where a claim compares values that the code rounds separately, the
\* values are numpy float64 numbers: a non-negative binary64 value is
\* [m |-> bits, e |-> exponent], standing for m * 2^e, with m a sequence of
\* bits, lowest first, that is empty (zero) or starts and ends with 1.
\* Exponents stay far from the ends of the binary64 range.
Precision == 53

RECURSIVE Bits(_)
Bits(n) == IF n = 0 THEN <<>> ELSE <<n % 2>> \o Bits(n \div 2)

\* An array holding the values of s, each computed once.
AsArray(s) == SubSeq(s, 1, Len(s))

Zeros(k) == AsArray([i \in 1..k |-> 0])

\* bits without its zeros at the high end
RECURSIVE StripHigh(_)
StripHigh(bits) ==
    IF bits = <<>> \/ bits[Len(bits)] = 1 THEN bits
    ELSE IF Len(bits) = 1 THEN <<>>
    ELSE LET half == Len(bits) \div 2
         IN  IF \E i \in (half + 1)..Len(bits) : bits[i] = 1
             THEN SubSeq(bits, 1, half) \o StripHigh(SubSeq(bits, half + 1, Len(bits)))
             ELSE StripHigh(SubSeq(bits, 1, half))

\* bits without its zeros at the low end, and their number
RECURSIVE LowZeros(_)
LowZeros(bits) ==
    IF bits = <<>> \/ bits[1] = 1 THEN 0
    ELSE LET half == (Len(bits) + 1) \div 2
         IN  IF \E i \in 1..half : bits[i] = 1
             THEN LowZeros(SubSeq(bits, 1, half))
             ELSE half + LowZeros(SubSeq(bits, half + 1, Len(bits)))

\* bits * 2^e in normal form
F64Norm(bits, e) ==
    LET m == StripHigh(bits)
    IN  IF m = <<>> THEN [m |-> <<>>, e |-> 0]
        ELSE [m |-> SubSeq(m, LowZeros(m) + 1, Len(m)), e |-> e + LowZeros(m)]

\* The sum bits s and the carry out c of a + b + c, for a and b of one
\* length: the low halves first, their carry (0 or 1, settled before the
\* high halves are added) into the high halves.
RECURSIVE AddCarry(_, _, _)
AddCarry(a, b, c) ==
    IF Len(a) = 0 THEN [s |-> <<>>, c |-> c]
    ELSE IF Len(a) = 1
    THEN [s |-> <<(a[1] + b[1] + c) % 2>>, c |-> (a[1] + b[1] + c) \div 2]
    ELSE LET half == Len(a) \div 2
             low == AddCarry(SubSeq(a, 1, half), SubSeq(b, 1, half), c)
             high == AddCarry(SubSeq(a, half + 1, Len(a)), SubSeq(b, half + 1, Len(a)),
                              low.c)
         IN  IF low.c <= 1 THEN [s |-> low.s \o high.s, c |-> high.c] ELSE low

\* a + b
AddBits(a, b) ==
    LET n == IF Len(a) > Len(b) THEN Len(a) ELSE Len(b)
        sum == AddCarry(a \o Zeros(n - Len(a)), b \o Zeros(n - Len(b)), 0)
    IN  StripHigh(sum.s \o <<sum.c>>)

\* a - b for a >= b: a plus the complement of b plus one, without the
\* carry out of the top.
SubBits(a, b) ==
    LET complement == [i \in 1..Len(a) |-> IF i <= Len(b) THEN 1 - b[i] ELSE 1]
    IN  StripHigh(AddCarry(a, AsArray(complement), 1).s)

\* bits + 1 and, for bits > 0, bits - 1
Inc(bits) == AddBits(bits, <<1>>)

Dec(bits) == SubBits(bits, <<1>>)

\* The bits s and the carry out c of bits * n + c, for a natural number n
\* and a carry below n (settled before the high half is multiplied)
RECURSIVE MulCarry(_, _, _)
MulCarry(bits, n, c) ==
    IF Len(bits) = 0 THEN [s |-> <<>>, c |-> c]
    ELSE IF Len(bits) = 1
    THEN [s |-> <<(bits[1] * n + c) % 2>>, c |-> (bits[1] * n + c) \div 2]
    ELSE LET half == Len(bits) \div 2
             low == MulCarry(SubSeq(bits, 1, half), n, c)
             high == MulCarry(SubSeq(bits, half + 1, Len(bits)), n, low.c)
         IN  IF low.c < n THEN [s |-> low.s \o high.s, c |-> high.c] ELSE low

\* bits * n
MulBits(bits, n) ==
    LET product == MulCarry(bits, n, 0)
    IN  StripHigh(product.s \o Bits(product.c))

\* The quotient bits q and the remainder r of the long division of
\* r * 2^Len(bits) + bits by n, for r < n: the high half first, its
\* remainder (below n, settled before the low half is divided) into the
\* low half.
RECURSIVE DivRem(_, _, _)
DivRem(bits, n, r) ==
    IF Len(bits) = 0 THEN [q |-> <<>>, r |-> r]
    ELSE IF Len(bits) = 1
    THEN [q |-> <<(2 * r + bits[1]) \div n>>, r |-> (2 * r + bits[1]) % n]
    ELSE LET half == Len(bits) \div 2
             high == DivRem(SubSeq(bits, half + 1, Len(bits)), n, r)
             low == DivRem(SubSeq(bits, 1, half), n, high.r)
         IN  IF high.r < n THEN [q |-> low.q \o high.q, r |-> low.r] ELSE high

\* The binary64 value nearest to bits * 2^e, ties to even.
F64Round(bits, e) ==
    IF Len(bits) <= Precision THEN F64Norm(bits, e)
    ELSE LET k == Len(bits) - Precision
             kept == SubSeq(bits, k + 1, Len(bits))
             sticky == \E i \in 1..(k - 1) : bits[i] = 1
             up == bits[k] = 1 /\ (sticky \/ kept[1] = 1)
         IN  F64Norm(IF up THEN Inc(kept) ELSE kept, e + k)

\* float(n) for a natural number n
F64(n) == F64Norm(Bits(n), 0)

\* x + y
F64Add(x, y) ==
    LET e == IF x.e < y.e THEN x.e ELSE y.e
    IN  F64Round(AddBits(StripHigh(Zeros(x.e - e) \o x.m),
                         StripHigh(Zeros(y.e - e) \o y.m)), e)

\* x - y for x >= y
F64Sub(x, y) ==
    LET e == IF x.e < y.e THEN x.e ELSE y.e
    IN  F64Round(SubBits(StripHigh(Zeros(x.e - e) \o x.m),
                         StripHigh(Zeros(y.e - e) \o y.m)), e)

\* n * x for an integer n >= 0
F64Mul(n, x) == F64Round(MulBits(x.m, n), x.e)

\* x / n for an integer n >= 1: the quotient is taken to more than
\* Precision + 2 bits and a last bit records a remainder.
F64Div(x, n) ==
    IF x.m = <<>> THEN x
    ELSE LET shift == Precision + 2 + Len(Bits(n))
             d == DivRem(Zeros(shift) \o x.m, n, 0)
         IN  F64Round(<<IF d.r = 0 THEN 0 ELSE 1>> \o StripHigh(d.q), x.e - shift - 1)

\* float(r) for a rational r >= 0
F64Of(r) == IF r[2] = 1 THEN F64(r[1]) ELSE F64Div(F64(r[1]), r[2])

\* a < b for bit sequences of one length: decided in the high halves
\* unless they are equal.
RECURSIVE LessBits(_, _)
LessBits(a, b) ==
    IF a = b THEN FALSE
    ELSE IF Len(a) = 1 THEN a[1] < b[1]
    ELSE LET half == Len(a) \div 2
         IN  IF SubSeq(a, half + 1, Len(a)) = SubSeq(b, half + 1, Len(a))
             THEN LessBits(SubSeq(a, 1, half), SubSeq(b, 1, half))
             ELSE LessBits(SubSeq(a, half + 1, Len(a)), SubSeq(b, half + 1, Len(a)))

\* x < y
F64Lt(x, y) ==
    IF y.m = <<>> THEN FALSE
    ELSE IF x.m = <<>> THEN TRUE
    ELSE IF Len(x.m) + x.e # Len(y.m) + y.e THEN Len(x.m) + x.e < Len(y.m) + y.e
    ELSE LET e == IF x.e < y.e THEN x.e ELSE y.e
         IN  LessBits(Zeros(x.e - e) \o x.m, Zeros(y.e - e) \o y.m)

F64Le(x, y) == ~F64Lt(y, x)

\* The binary64 values next to x > 0: one unit in the last place above and
\* below.
F64Up(x) ==
    F64Norm(Inc(Zeros(Precision - Len(x.m)) \o x.m), x.e - (Precision - Len(x.m)))

F64Down(x) ==
    LET pad == IF x.m = <<1>> THEN Precision ELSE Precision - Len(x.m)
    IN  F64Norm(Dec(Zeros(pad) \o x.m), x.e - pad)

-----------------------------------------------------------------------------
(* metrics.py: divide_lap_into_segments; minisectors.py:                   *)
(* compute_minisector_deltas                                               *)

\* Longest aligned trace handed to the segmenting operations, and the
\* largest number of segments or minisectors asked for.
MaxGridLen == 4
MaxSegments == 11

\* The traces are a pair as align_laps returns it: one grid of
\* Config.distance_resolution metres for both drivers, starting at 0 or
\* 5 m, a speed (km/h) at each grid point for driver 1 and one speed for
\* driver 2, and either both or neither with a Throttle column (100 % at
\* the higher speed, 50 % at the lower).
DistanceResolution == 5
GridStarts == {R(0), R(5)}
GridSpeeds == {R(100), R(110)}

GridTrace(start, speed, with_throttle) ==
    [i \in 1..Len(speed) |->
        LET row == [Distance |-> RAdd(start, R(DistanceResolution * (i - 1))),
                    Speed |-> speed[i],
                    Throttle |-> IF speed[i] = R(110) THEN R(100) ELSE R(50)]
        IN  IF with_throttle THEN row
            ELSE [c \in {"Distance", "Speed"} |-> row[c]]]

\* divide_lap_into_segments(distance_array, num_segments): the list of
\* (start, end) pairs, in binary64.
divide_lap_into_segments(distance_array, num_segments) ==
    LET min_dist == F64Of(SeqMin(distance_array))
        max_dist == F64Of(SeqMax(distance_array))
        segment_length == F64Div(F64Sub(max_dist, min_dist), num_segments)
    IN  AsArray([i \in 1..num_segments |->
                    <<F64Add(min_dist, F64Mul(i - 1, segment_length)),
                      F64Add(min_dist, F64Mul(i, segment_length))>>])

\* A linspace that leaves its last sample as computed.
linspace_unpinned(start, stop, num) ==
    LET step == F64Div(F64Sub(stop, start), num - 1)
    IN  AsArray([i \in 1..num |-> F64Add(F64Mul(i - 1, step), start)])

\* np.linspace(start, stop, num) for num >= 2 and start <= stop, in
\* binary64: arange(0, num) * step + start with step = (stop - start) /
\* (num - 1), and the last sample set to stop.
linspace(start, stop, num) ==
    LET step == F64Div(F64Sub(stop, start), num - 1)
    IN  AsArray([i \in 1..num |->
                    IF i = num THEN stop ELSE F64Add(F64Mul(i - 1, step), start)])

\* The 1-based positions of the samples of minisector i:
\* (distance >= distance_starts[i]) & (distance < distance_ends[i])
minisector_mask(distance, distance_start, distance_end) ==
    {k \in 1..Len(distance) :
        /\ F64Le(distance_start, distance[k])
        /\ F64Lt(distance[k], distance_end)}

\* The values of an array at the positions of a mask, in order.
Masked(values, mask) ==
    LET positions == SelectSeq([k \in 1..Len(values) |-> k], LAMBDA k : k \in mask)
    IN  [j \in 1..Len(positions) |-> values[positions[j]]]

\* np.sum(dx / (v_avg / 3.6)) with dx = np.diff(dist_segment) and
\* v_avg = (speed[:-1] + speed[1:]) / 2 + 0.1
minisector_time(dist_segment, speed_segment) ==
    SeqSum([j \in 1..(Len(dist_segment) - 1) |->
               RDiv(RSub(dist_segment[j + 1], dist_segment[j]),
                    RDiv(RAdd(RDiv(RAdd(speed_segment[j], speed_segment[j + 1]), R(2)),
                              <<1, 10>>),
                         <<18, 5>>))])

\* compute_minisector_deltas(telemetry1, telemetry2, n_minisectors) for
\* n_minisectors >= 1: the MinisectorData returned, or the error raised.
\* The boundaries are binary64 values; the aggregates are exact.
compute_minisector_deltas(tel1, tel2, n_minisectors) ==
    IF Len(tel1) # Len(tel2)
    THEN [status |-> "ValueError",
          message |-> "Telemetry dataframes must have same length (should be aligned)"]
    ELSE IF tel1 = <<>> THEN [status |-> "IndexError"]
    ELSE
    LET distance == Column(tel1, "Distance")
        speed1 == Column(tel1, "Speed")
        speed2 == Column(tel2, "Speed")
        has_throttle == has_column(tel1, "Throttle") /\ has_column(tel2, "Throttle")
        distance64 == AsArray([k \in 1..Len(distance) |-> F64Of(distance[k])])
        minisector_boundaries ==
            linspace(distance64[1], distance64[Len(distance64)], n_minisectors + 1)
        distance_starts == SubSeq(minisector_boundaries, 1, n_minisectors)
        distance_ends == SubSeq(minisector_boundaries, 2, n_minisectors + 1)
        mask == AsArray([i \in 1..n_minisectors |->
                   minisector_mask(distance64, distance_starts[i], distance_ends[i])])
        filled(i, value) == IF mask[i] = {} THEN R(0) ELSE value
    IN  [status |-> "ok",
         minisector_id |-> [i \in 1..n_minisectors |-> i - 1],
         distance_start |-> distance_starts,
         distance_end |-> distance_ends,
         distance_center |->
            [i \in 1..n_minisectors |->
                F64Div(F64Add(distance_starts[i], distance_ends[i]), 2)],
         time_delta |->
            [i \in 1..n_minisectors |->
                filled(i, RSub(minisector_time(Masked(distance, mask[i]),
                                               Masked(speed1, mask[i])),
                               minisector_time(Masked(distance, mask[i]),
                                               Masked(speed2, mask[i]))))],
         speed_avg_driver1 |->
            [i \in 1..n_minisectors |-> filled(i, mean(Masked(speed1, mask[i])))],
         speed_avg_driver2 |->
            [i \in 1..n_minisectors |-> filled(i, mean(Masked(speed2, mask[i])))],
         throttle_avg_driver1 |->
            IF has_column(tel1, "Throttle")
            THEN [i \in 1..n_minisectors |->
                    IF has_throttle
                    THEN filled(i, mean(Masked(Column(tel1, "Throttle"), mask[i])))
                    ELSE R(0)]
            ELSE "None",
         throttle_avg_driver2 |->
            IF has_column(tel2, "Throttle")
            THEN [i \in 1..n_minisectors |->
                    IF has_throttle
                    THEN filled(i, mean(Masked(Column(tel2, "Throttle"), mask[i])))
                    ELSE R(0)]
            ELSE "None"]

\* The outcome of a call, with the name of the operation called.
Called(name, outcome) ==
    [f \in DOMAIN outcome \cup {"call"} |-> IF f = "call" THEN name ELSE outcome[f]]

\* A lap that begins at rest: the first sample has Speed 0 (and Throttle 0
\* where the trace has the column).  The laps that begin at rest have both
\* drivers at one speed afterwards.
StandingStart(trace) ==
    [i \in 1..Len(trace) |->
        IF i > 1 THEN trace[i]
        ELSE [c \in DOMAIN trace[1] |->
                 IF c = "Distance" THEN trace[1].Distance ELSE R(0)]]

InitSegments ==
    /\ StagesIdle
    /\ \E n \in 1..MaxGridLen, start \in GridStarts, with_throttle \in BOOLEAN,
          count \in 1..MaxSegments, standing \in BOOLEAN :
          \E speed2 \in GridSpeeds :
          \E speed1 \in IF standing THEN {[i \in 1..n |-> speed2]}
                         ELSE [1..n -> GridSpeeds] :
             LET lap1 == GridTrace(start, speed1, with_throttle)
                 lap2 == GridTrace(start, [i \in 1..n |-> speed2], with_throttle)
             IN  arguments =
                    [telemetry1 |-> IF standing THEN StandingStart(lap1) ELSE lap1,
                     telemetry2 |-> IF standing THEN StandingStart(lap2) ELSE lap2,
                     count |-> count]
    /\ result = NotRun

\* divide_lap_into_segments(telemetry1["Distance"].values, num_segments)
DivideLapIntoSegments ==
    /\ result = NotRun
    /\ result' = [status |-> "ok", call |-> "divide_lap_into_segments",
                  segments |-> divide_lap_into_segments(
                                   Column(arguments.telemetry1, "Distance"),
                                   arguments.count)]
    /\ UNCHANGED <<stage_vars, arguments>>

\* compute_minisector_deltas(telemetry1, telemetry2, n_minisectors)
ComputeMinisectorDeltas ==
    /\ result = NotRun
    /\ result' = Called("compute_minisector_deltas",
                         compute_minisector_deltas(arguments.telemetry1,
                                                   arguments.telemetry2,
                                                   arguments.count))
    /\ UNCHANGED <<stage_vars, arguments>>

NextSegments == DivideLapIntoSegments \/ ComputeMinisectorDeltas

SpecSegments == InitSegments /\ [][NextSegments]_vars

\* The aligned minimum and maximum distance of the trace segmented.
AlignedMin == F64Of(SeqMin(Column(arguments.telemetry1, "Distance")))
AlignedMax == F64Of(SeqMax(Column(arguments.telemetry1, "Distance")))

\* The (start, end) pairs of the bins or segments returned.
Bins ==
    IF result.call = "divide_lap_into_segments" THEN result.segments
    ELSE [i \in 1..Len(result.distance_start) |->
             <<result.distance_start[i], result.distance_end[i]>>]

\* There are exactly N bins, the first starts at the aligned minimum and
\* each ends where the next starts.
Contiguous ==
    /\ Len(Bins) = arguments.count
    /\ Bins[1][1] = AlignedMin
    /\ \A i \in 1..(Len(Bins) - 1) : Bins[i][2] = Bins[i + 1][1]

-----------------------------------------------------------------------------
(* metrics.py: compute_segment_times, compare_segments                     *)

\* Largest Config.num_segments handed to compare_segments.
MaxNumSegments == 50

\* The synthetic pair: SampleCount samples for both drivers on one grid
\* over [0, 1000] m (10 m apart, one gap of 20 m at the start or at the
\* end), driver 2 at one speed (km/h) and driver 1 at 1.10 times it.
SampleCount == 100
LapLength == 1000
SyntheticSpeeds == {R(100), R(200), R(300), R(340)}
SpeedMultiplier == <<11, 10>>

SyntheticGrid(gap_at) ==
    [i \in 1..SampleCount |->
        R(IF i <= gap_at THEN 10 * (i - 1) ELSE LapLength - 10 * (SampleCount - i))]

SyntheticTrace(gap_at, speed) ==
    [i \in 1..SampleCount |-> [Distance |-> SyntheticGrid(gap_at)[i], Speed |-> speed]]

WinnerThreshold == <<1, 100>>

\* Sum of an array of numbers, by halves.
RECURSIVE HalvedSum(_)
HalvedSum(s) ==
    IF Len(s) = 0 THEN R(0)
    ELSE IF Len(s) = 1 THEN s[1]
    ELSE RAdd(HalvedSum(SubSeq(s, 1, Len(s) \div 2)),
              HalvedSum(SubSeq(s, Len(s) \div 2 + 1, Len(s))))

\* compute_segment_times, one segment: 0.0 for fewer than two samples in
\* (distance >= start_dist) & (distance < end_dist), else the sum of
\* distance_deltas / (segment_speeds + epsilon) with the first
\* distance_delta 0 and epsilon = 0.1 / 3.6.
segment_time(distance, distance64, speed, segment) ==
    LET mask == minisector_mask(distance64, segment[1], segment[2])
        segment_distances == AsArray(Masked(distance, mask))
        segment_speeds == AsArray(Masked(speed, mask))
    IN  IF Len(segment_distances) < 2 THEN R(0)
        ELSE HalvedSum([j \in 1..Len(segment_distances) |->
                          IF j = 1 THEN R(0)
                          ELSE RDiv(RSub(segment_distances[j], segment_distances[j - 1]),
                                    RAdd(RDiv(segment_speeds[j], <<18, 5>>), <<1, 36>>))])

\* compute_segment_times(telemetry, segments)
compute_segment_times(telemetry, segments) ==
    LET distance == Column(telemetry, "Distance")
        distance64 == AsArray([k \in 1..Len(distance) |-> F64Of(distance[k])])
        speed == Column(telemetry, "Speed")
    IN  AsArray([i \in 1..Len(segments) |->
                    segment_time(distance, distance64, speed, segments[i])])

\* compare_segments: the winner of a segment
winner_of(delta) ==
    IF RLt(RAbs(delta), WinnerThreshold) THEN "tie"
    ELSE IF RLt(delta, R(0)) THEN "driver1"
    ELSE "driver2"

\* compare_segments(telemetry1, telemetry2, config)
compare_segments(tel1, tel2, cfg) ==
    LET segments == divide_lap_into_segments(Column(tel1, "Distance"), cfg.num_segments)
        times1 == compute_segment_times(tel1, segments)
        times2 == compute_segment_times(tel2, segments)
    IN  [i \in 1..Len(segments) |->
            [segment_num |-> i,
             start_distance |-> segments[i][1],
             end_distance |-> segments[i][2],
             driver1_time |-> times1[i],
             driver2_time |-> times2[i],
             time_delta |-> RSub(times1[i], times2[i]),
             winner |-> winner_of(RSub(times1[i], times2[i]))]]

InitCompareSegments ==
    /\ StagesIdle
    /\ \E gap_at \in {1, SampleCount - 1}, speed \in SyntheticSpeeds,
          num_segments \in 1..MaxNumSegments :
          arguments = [telemetry1 |-> SyntheticTrace(gap_at, RMul(SpeedMultiplier, speed)),
                       telemetry2 |-> SyntheticTrace(gap_at, speed),
                       config |-> [num_segments |-> num_segments]]
    /\ result = NotRun

\* compute_delta_time(telemetry1, telemetry2)
DeltaTimeOfPair ==
    /\ result = NotRun
    /\ result' = Called("compute_delta_time",
                        compute_delta_time(arguments.telemetry1, arguments.telemetry2))
    /\ UNCHANGED <<stage_vars, arguments>>

\* compare_segments(telemetry1, telemetry2, config)
CompareSegments ==
    /\ result = NotRun
    /\ result' = [status |-> "ok", call |-> "compare_segments",
                  comparisons |-> compare_segments(arguments.telemetry1,
                                                   arguments.telemetry2,
                                                   arguments.config)]
    /\ UNCHANGED <<stage_vars, arguments>>

NextCompareSegments == DeltaTimeOfPair \/ CompareSegments

SpecCompareSegments == InitCompareSegments /\ [][NextCompareSegments]_vars

\* The number of segments driver 1 wins.
Driver1Wins ==
    Cardinality({i \in 1..Len(result.comparisons) :
                    result.comparisons[i].winner = "driver1"})

\* C13: for the synthetic pair (driver 1 at 1.10 times driver 2's speed
\* at every sample of a 100-sample grid over [0, 1000]),
\* compute_delta_time ends on a negative cumulative delta and
\* compare_segments gives driver 1 a strict majority of the N segments, for
\* every N >= 1.
C13_FasterDriverWins ==
    /\ (result # NotRun /\ result.call = "compute_delta_time") =>
          /\ result.status = "ok"
          /\ RLt(result.delta[Len(result.delta)], R(0))
    /\ (result # NotRun /\ result.call = "compare_segments") =>
          2 * Driver1Wins > Len(result.comparisons)


-----------------------------------------------------------------------------
(* Properties of detect_braking_zones on a trace without the Brake column  *)

\* The input trace with a Brake column added that never exceeds the
\* threshold: a trace that has the channel but no braking zone.
WithIdleBrake(telemetry) ==
    [i \in 1..Len(telemetry) |->
        [Distance |-> telemetry[i].Distance, Speed |-> telemetry[i].Speed,
         Brake |-> R(0)]]

\* C14: on a trace without the Brake column detect_braking_zones does not
\* raise and returns an empty list, and what the caller receives differs
\* from what it receives for a trace that has the Brake column but no
\* qualifying braking zone.
C14_MissingBrakeSignalled ==
    (zones # NotRun /\ ~has_column(telemetry1, "Brake")) =>
        /\ zones.status = "ok"
        /\ zones.result = <<>>
        /\ zones.result # detect_braking_zones(WithIdleBrake(telemetry1), config).result


-----------------------------------------------------------------------------
(* Properties of the bins of compute_minisector_deltas without samples     *)

\* Bin i (1-based) of the result encloses no sample of the input.
EnclosesNoSample(i) ==
    \A k \in 1..Len(arguments.telemetry1) :
        LET d == F64Of(arguments.telemetry1[k].Distance)
        IN  ~(F64Le(result.distance_start[i], d) /\ F64Lt(d, result.distance_end[i]))

\* What the result says about bin i besides its number and its bounds: the
\* time delta, the mean speeds and, where the result has the throttle arrays
\* (they are None without the Throttle column), the mean throttles.
BinAggregates(i) ==
    <<result.time_delta[i], result.speed_avg_driver1[i], result.speed_avg_driver2[i]>>
    \o (IF has_column(arguments.telemetry1, "Throttle")
        THEN <<result.throttle_avg_driver1[i]>> ELSE <<>>)
    \o (IF has_column(arguments.telemetry2, "Throttle")
        THEN <<result.throttle_avg_driver2[i]>> ELSE <<>>)

ZeroAggregates(i) ==
    \A f \in DOMAIN BinAggregates(i) : BinAggregates(i)[f] = R(0)

\* C15: every bin of the MinisectorData that encloses no sample has zero
\* aggregates and is flagged: the result tells it apart from every bin that
\* has samples and a time delta of zero.
C15_EmptyBinsFlagged ==
    (result # NotRun /\ result.call = "compute_minisector_deltas"
        /\ result.status = "ok") =>
        \A i \in 1..arguments.count :
            EnclosesNoSample(i) =>
                /\ ZeroAggregates(i)
                /\ \A j \in 1..arguments.count :
                      (~EnclosesNoSample(j) /\ result.time_delta[j] = R(0)) =>
                          BinAggregates(i) # BinAggregates(j)

\* The aggregates of the bins without samples are zero.
C15_EmptyBinsAreZero ==
    (result # NotRun /\ result.call = "compute_minisector_deltas"
        /\ result.status = "ok") =>
        \A i \in 1..arguments.count : EnclosesNoSample(i) => ZeroAggregates(i)


-----------------------------------------------------------------------------
(* config.py: Config.__post_init__                                         *)

\* Config's default for num_segments.
DefaultNumSegments == 10

\* The keyword arguments Config is constructed with: values around each
\* limit of the validation, and the defaults.
ResolutionValues == {R(-1), R(0), <<1, 2>>, R(1), R(DistanceResolution)}
WindowValues == {2, 3, 4, SmoothingWindow}
PolyorderValues == {2, SmoothingPolyorder, 4}
NumSegmentsValues == {-1, 0, 1, DefaultNumSegments}

\* A validation that rejects only a polyorder above the window.
post_init_polyorder_above(self, mkdir_raises) ==
    IF mkdir_raises THEN [status |-> "OSError"]
    ELSE IF RLe(self.distance_resolution, R(0))
    THEN [status |-> "ValueError", message |-> "distance_resolution must be positive"]
    ELSE IF self.smoothing_window < 3
    THEN [status |-> "ValueError", message |-> "smoothing_window must be at least 3"]
    ELSE IF self.smoothing_polyorder > self.smoothing_window
    THEN [status |-> "ValueError",
          message |-> "smoothing_polyorder must be less than smoothing_window"]
    ELSE IF self.num_segments < 1
    THEN [status |-> "ValueError", message |-> "num_segments must be at least 1"]
    ELSE [status |-> "ok", config |-> self]

\* Config.__post_init__(self): the directories are created first (mkdir
\* raises OSError where the file system refuses), then the numeric settings
\* are validated in this order.
post_init(self, mkdir_raises) ==
    IF mkdir_raises THEN [status |-> "OSError"]
    ELSE IF RLe(self.distance_resolution, R(0))
    THEN [status |-> "ValueError", message |-> "distance_resolution must be positive"]
    ELSE IF self.smoothing_window < 3
    THEN [status |-> "ValueError", message |-> "smoothing_window must be at least 3"]
    ELSE IF self.smoothing_polyorder >= self.smoothing_window
    THEN [status |-> "ValueError",
          message |-> "smoothing_polyorder must be less than smoothing_window"]
    ELSE IF self.num_segments < 1
    THEN [status |-> "ValueError", message |-> "num_segments must be at least 1"]
    ELSE [status |-> "ok", config |-> self]

InitConfig ==
    /\ StagesIdle
    /\ \E distance_resolution \in ResolutionValues, smoothing_window \in WindowValues,
          smoothing_polyorder \in PolyorderValues, num_segments \in NumSegmentsValues,
          mkdir_raises \in BOOLEAN :
          arguments = [kwargs |-> [distance_resolution |-> distance_resolution,
                                   smoothing_window |-> smoothing_window,
                                   smoothing_polyorder |-> smoothing_polyorder,
                                   num_segments |-> num_segments],
                       mkdir_raises |-> mkdir_raises]
    /\ result = NotRun

\* config = cfg.Config(...)
ConstructConfig ==
    /\ result = NotRun
    /\ result' = Called("Config", post_init(arguments.kwargs, arguments.mkdir_raises))
    /\ UNCHANGED <<stage_vars, arguments>>

\* A stage of the pipeline is called with the Config constructed: the
\* construction returned, the Config is not modified in between.
StageReceivesConfig ==
    /\ result # NotRun
    /\ result.call = "Config"
    /\ result.status = "ok"
    /\ result' = [status |-> "ok", call |-> "align_laps", config |-> result.config]
    /\ UNCHANGED <<stage_vars, arguments>>

NextConfig == ConstructConfig \/ StageReceivesConfig

SpecConfig == InitConfig /\ [][NextConfig]_vars

\* The settings the validation is about are in range.
ValidSettings(c) ==
    /\ RGt(c.distance_resolution, R(0))
    /\ c.smoothing_window >= 3
    /\ c.smoothing_polyorder < c.smoothing_window
    /\ c.num_segments >= 1

-----------------------------------------------------------------------------
(* Reports over detected corners, braking zones and decompositions:        *)
(* braking_zones.get_top_braking_differences,                              *)
(* corners.create_corner_report_table,                                     *)
(* delta_decomp.create_decomposition_table, analyze_weakness_pattern       *)

\* Largest number of corners or braking zones of one driver in a report.
MaxReportLen == 2

\* round(x, ndigits) for ndigits >= 0: the nearest multiple of
\* 10^-ndigits, a tie going to the even one.
round(x, ndigits) ==
    LET scaled == RMul(x, R(10 ^ ndigits))
        floor == scaled[1] \div scaled[2]
        twice_rest == 2 * (scaled[1] - floor * scaled[2])
        nearest == IF twice_rest < scaled[2] THEN floor
                   ELSE IF twice_rest > scaled[2] THEN floor + 1
                   ELSE IF floor % 2 = 0 THEN floor ELSE floor + 1
    IN  RDiv(R(nearest), R(10 ^ ndigits))

\* int(x): truncation towards zero
int(x) == IF x[1] >= 0 THEN x[1] \div x[2] ELSE -((-x[1]) \div x[2])

\* pd.DataFrame(rows) for a list of dicts with the same keys: the columns
\* are the keys of the rows; without rows the frame has no column.
DataFrame(rows) ==
    [columns |-> IF rows = <<>> THEN {} ELSE DOMAIN rows[1], rows |-> rows]

\* df.empty
empty(df) == df.rows = <<>> \/ df.columns = {}

\* df.sort_values(by=...): a stable sort of rows, ascending by a column.
RECURSIVE sort_rows_by(_, _)
sort_rows_by(rows, by) ==
    IF rows = <<>> THEN <<>>
    ELSE LET m == CHOOSE i \in 1..Len(rows) :
                     /\ \A j \in 1..Len(rows) : RLe(rows[i][by], rows[j][by])
                     /\ \A j \in 1..(i - 1) : RGt(rows[j][by], rows[i][by])
             rest == [k \in 1..(Len(rows) - 1) |-> IF k < m THEN rows[k] ELSE rows[k + 1]]
         IN  <<rows[m]>> \o sort_rows_by(rest, by)

\* rows[::-1]; df.sort_rows_by(by=..., ascending=False) is the reverse of the
\* ascending sort of the reversed rows (equal keys keep their order).
reversed(rows) == [k \in 1..Len(rows) |-> rows[Len(rows) + 1 - k]]

\* df.head(n) and df.tail(n)
head(rows, n) == SubSeq(rows, 1, IF n < Len(rows) THEN n ELSE Len(rows))
tail(rows, n) == SubSeq(rows, IF n < Len(rows) THEN Len(rows) - n + 1 ELSE 1, Len(rows))

\* get_top_braking_differences(comparison_df, n, sort_by): (top gains, top
\* losses), two frames without columns for an empty comparison.
get_top_braking_differences(comparison_df, n, sort_by) ==
    IF empty(comparison_df)
    THEN [status |-> "ok", top_gains |-> DataFrame(<<>>), top_losses |-> DataFrame(<<>>)]
    ELSE IF sort_by \notin comparison_df.columns
    THEN [status |-> "KeyError", message |-> sort_by]
    ELSE LET sorted_df == reversed(sort_rows_by(reversed(comparison_df.rows), sort_by))
         IN  [status |-> "ok",
              top_gains |-> DataFrame(head(sorted_df, n)),
              top_losses |-> DataFrame(sort_rows_by(tail(sorted_df, n), sort_by))]

\* create_corner_report_table(corners1, corners2, driver1_name,
\* driver2_name) for the driver names "D1" and "D2".
create_corner_report_table(corners1, corners2) ==
    LET min_corners == IF Len(corners1) < Len(corners2) THEN Len(corners1)
                       ELSE Len(corners2)
        row(c1, c2) ==
            [Corner |-> c1.corner_id,
             Type |-> c1.corner_type,
             Distance |-> int(c1.apex_distance),
             D1_Entry_Speed |-> round(c1.entry_speed, 1),
             D2_Entry_Speed |-> round(c2.entry_speed, 1),
             Entry_Delta |-> round(RSub(c1.entry_speed, c2.entry_speed), 1),
             D1_Min_Speed |-> round(c1.min_speed, 1),
             D2_Min_Speed |-> round(c2.min_speed, 1),
             Min_Delta |-> round(RSub(c1.min_speed, c2.min_speed), 1),
             D1_Exit_Speed |-> round(c1.exit_speed, 1),
             D2_Exit_Speed |-> round(c2.exit_speed, 1),
             Exit_Delta |-> round(RSub(c1.exit_speed, c2.exit_speed), 1),
             D1_Brake_Dist |-> round(c1.brake_distance, 1),
             D2_Brake_Dist |-> round(c2.brake_distance, 1),
             Brake_Dist_Delta |-> round(RSub(c1.brake_distance, c2.brake_distance), 1)]
    IN  [status |-> "ok",
         df |-> DataFrame([i \in 1..min_corners |-> row(corners1[i], corners2[i])])]

\* A braking assessment whose distance thresholds are inclusive.
assess_braking_inclusive(c1, c2) ==
    LET brake_dist_diff == RSub(c1.brake_distance, c2.brake_distance)
        entry_speed_diff == RSub(c1.entry_speed, c2.entry_speed)
    IN  IF RGe(brake_dist_diff, R(5)) THEN "earlier_braking"
        ELSE IF RLe(brake_dist_diff, R(-5)) THEN "later_braking"
        ELSE IF RGt(entry_speed_diff, R(3)) THEN "higher_entry"
        ELSE IF RLt(entry_speed_diff, R(-3)) THEN "lower_entry"
        ELSE "similar"

\* _assess_braking(c1, c2)
assess_braking(c1, c2) ==
    LET brake_dist_diff == RSub(c1.brake_distance, c2.brake_distance)
        entry_speed_diff == RSub(c1.entry_speed, c2.entry_speed)
    IN  IF RGt(brake_dist_diff, R(5)) THEN "earlier_braking"
        ELSE IF RLt(brake_dist_diff, R(-5)) THEN "later_braking"
        ELSE IF RGt(entry_speed_diff, R(3)) THEN "higher_entry"
        ELSE IF RLt(entry_speed_diff, R(-3)) THEN "lower_entry"
        ELSE "similar"

\* _assess_mid_corner(c1, c2)
assess_mid_corner(c1, c2) ==
    LET min_speed_diff == RSub(c1.min_speed, c2.min_speed)
    IN  IF RGt(min_speed_diff, R(2)) THEN "faster_apex"
        ELSE IF RLt(min_speed_diff, R(-2)) THEN "slower_apex"
        ELSE "similar"

\* _assess_traction(c1, c2)
assess_traction(c1, c2) ==
    LET exit_speed_diff == RSub(c1.exit_speed, c2.exit_speed)
        throttle_dist_diff ==
            RSub(c1.throttle_reapply_distance, c2.throttle_reapply_distance)
    IN  IF RGt(exit_speed_diff, R(3)) THEN "better_exit"
        ELSE IF RLt(exit_speed_diff, R(-3)) THEN "worse_exit"
        ELSE IF RLt(throttle_dist_diff, R(-5)) THEN "earlier_throttle"
        ELSE IF RGt(throttle_dist_diff, R(5)) THEN "later_throttle"
        ELSE "similar"

\* The CornerDecomposition of a corner pair with its three assessments.
CornerDecomposition(c1, c2) ==
    LET d == decompose_corner_delta(c1, c2)
    IN  [corner_id |-> d.corner_id,
         total_delta |-> d.total_delta,
         braking_contribution |-> d.braking_contribution,
         mid_corner_contribution |-> d.mid_corner_contribution,
         traction_contribution |-> d.traction_contribution,
         dominant_phase |-> d.dominant_phase,
         braking_quality |-> assess_braking(c1, c2),
         mid_corner_quality |-> assess_mid_corner(c1, c2),
         traction_quality |-> assess_traction(c1, c2)]

\* A pairing loop that pairs the last corners of the two lists.
decompose_corners_from_end(corners1, corners2) ==
    LET min_corners == IF Len(corners1) < Len(corners2) THEN Len(corners1)
                       ELSE Len(corners2)
    IN  [i \in 1..min_corners |->
            CornerDecomposition(corners1[Len(corners1) - min_corners + i],
                                corners2[Len(corners2) - min_corners + i])]

\* The decompositions of the first min(len(corners1), len(corners2)) corner
\* pairs, as the application builds them.
decompose_corners(corners1, corners2) ==
    LET min_corners == IF Len(corners1) < Len(corners2) THEN Len(corners1)
                       ELSE Len(corners2)
    IN  [i \in 1..min_corners |-> CornerDecomposition(corners1[i], corners2[i])]

\* assign_dominant_cause(decomposition)
assign_dominant_cause(decomp) ==
    IF decomp.dominant_phase = "braking"
    THEN "Braking (" \o decomp.braking_quality \o ")"
    ELSE IF decomp.dominant_phase = "mid_corner"
    THEN "Mid-corner (" \o decomp.mid_corner_quality \o ")"
    ELSE IF decomp.dominant_phase = "traction"
    THEN "Traction (" \o decomp.traction_quality \o ")"
    ELSE "Neutral (minimal difference)"

\* df[column].sum()
column_sum(df, column) == HalvedSum([k \in 1..Len(df.rows) |-> df.rows[k][column]])

\* create_decomposition_table(decompositions, driver1_name, driver2_name):
\* the table with its TOTAL row, or the KeyError that df["Total_Delta_s"]
\* raises on a frame without that column.
create_decomposition_table(decompositions) ==
    LET row(decomp) ==
            [Corner |-> decomp.corner_id,
             Total_Delta_s |-> round(decomp.total_delta, 3),
             Braking_Delta_s |-> round(decomp.braking_contribution, 3),
             Mid_Corner_Delta_s |-> round(decomp.mid_corner_contribution, 3),
             Traction_Delta_s |-> round(decomp.traction_contribution, 3),
             Dominant_Phase |-> decomp.dominant_phase,
             Primary_Cause |-> assign_dominant_cause(decomp),
             Braking_Assessment |-> decomp.braking_quality,
             Mid_Corner_Assessment |-> decomp.mid_corner_quality,
             Traction_Assessment |-> decomp.traction_quality]
        df == DataFrame([k \in 1..Len(decompositions) |-> row(decompositions[k])])
    IN  IF "Total_Delta_s" \notin df.columns
        THEN [status |-> "KeyError", message |-> "Total_Delta_s"]
        ELSE LET summary ==
                    [Corner |-> "TOTAL",
                     Total_Delta_s |-> round(column_sum(df, "Total_Delta_s"), 3),
                     Braking_Delta_s |-> round(column_sum(df, "Braking_Delta_s"), 3),
                     Mid_Corner_Delta_s |-> round(column_sum(df, "Mid_Corner_Delta_s"), 3),
                     Traction_Delta_s |-> round(column_sum(df, "Traction_Delta_s"), 3),
                     Dominant_Phase |-> "-",
                     Primary_Cause |-> "-",
                     Braking_Assessment |-> "-",
                     Mid_Corner_Assessment |-> "-",
                     Traction_Assessment |-> "-"]
             IN  [status |-> "ok", df |-> DataFrame(df.rows \o <<summary>>)]

\* analyze_weakness_pattern(decompositions)
analyze_weakness_pattern(decompositions) ==
    LET phases == {"braking", "mid_corner", "traction", "neutral"}
        phase_counts ==
            [phase \in phases |->
                Cardinality({k \in 1..Len(decompositions) :
                                decompositions[k].dominant_phase = phase})]
        phase_deltas ==
            [braking |-> HalvedSum([k \in 1..Len(decompositions) |->
                                       decompositions[k].braking_contribution]),
             mid_corner |-> HalvedSum([k \in 1..Len(decompositions) |->
                                          decompositions[k].mid_corner_contribution]),
             traction |-> HalvedSum([k \in 1..Len(decompositions) |->
                                        decompositions[k].traction_contribution])]
        total_corners == Len(decompositions)
        keys == <<"braking", "mid_corner", "traction">>
        first_max == CHOOSE i \in 1..3 :
                        /\ \A j \in 1..3 :
                              RGe(RAbs(phase_deltas[keys[i]]), RAbs(phase_deltas[keys[j]]))
                        /\ \A j \in 1..(i - 1) :
                              RLt(RAbs(phase_deltas[keys[j]]), RAbs(phase_deltas[keys[i]]))
    IN  [status |-> "ok",
         dominant_phase_counts |-> phase_counts,
         phase_percentages |->
            [phase \in phases |->
                IF total_corners > 0
                THEN RMul(RDiv(R(phase_counts[phase]), R(total_corners)), R(100))
                ELSE R(0)],
         phase_total_deltas |-> phase_deltas,
         primary_weakness |-> keys[first_max]]

\* The corners handed to the reports: corner k of a driver lies at
\* 100 * k + 0.5 m and has the speeds and distances of one Corner value.
ReportCornerValues ==
    {c \in DecompCorners :
        /\ c.entry_speed = KmhOf(R(40))
        /\ c.exit_speed = KmhOf(R(40))
        /\ c.throttle_reapply_distance = R(20)}

ReportCorners(n, c) ==
    [k \in 1..n |->
        [corner_id |-> k, corner_type |-> "slow",
         apex_distance |-> RAdd(R(100 * k), <<1, 2>>),
         entry_speed |-> c.entry_speed, min_speed |-> c.min_speed,
         exit_speed |-> c.exit_speed, brake_distance |-> c.brake_distance,
         throttle_reapply_distance |-> c.throttle_reapply_distance]]

\* The braking zones handed to the reports: zone k of driver 1 starts at
\* 100 * k m, zone k of driver 2 an offset later.
ReportZoneOffsets == {R(0), R(10), R(60)}
ReportZones(n, offset) ==
    ZoneList([k \in 1..n |-> RAdd(R(100 * k), offset)], [k \in 1..n |-> R(200)])

\* n = 3 of get_top_braking_differences
DefaultTopN == 3

InitReports ==
    /\ StagesIdle
    /\ \E n1 \in 0..MaxReportLen, n2 \in 0..MaxReportLen,
          c1 \in ReportCornerValues, c2 \in ReportCornerValues,
          offset \in ReportZoneOffsets :
          arguments = [corners1 |-> ReportCorners(n1, c1),
                       corners2 |-> ReportCorners(n2, c2),
                       zones1 |-> ReportZones(n1, R(0)),
                       zones2 |-> ReportZones(n2, offset)]
    /\ result = NotRun

\* compare_braking_zones(zones1, zones2)
CompareReportZones ==
    /\ result = NotRun
    /\ result' = [status |-> "ok", call |-> "compare_braking_zones",
                  df |-> DataFrame(compare_braking_zones(
                                       arguments.zones1, arguments.zones2,
                                       R(DefaultDistanceTolerance)))]
    /\ UNCHANGED <<stage_vars, arguments>>

\* get_top_braking_differences(compare_braking_zones(zones1, zones2))
GetTopBrakingDifferences ==
    /\ result = NotRun
    /\ result' = Called("get_top_braking_differences",
                        get_top_braking_differences(
                            DataFrame(compare_braking_zones(
                                          arguments.zones1, arguments.zones2,
                                          R(DefaultDistanceTolerance))),
                            DefaultTopN, "Brake_Start_Delta_m"))
    /\ UNCHANGED <<stage_vars, arguments>>

\* create_corner_report_table(corners1, corners2, driver1_name, driver2_name)
CreateCornerReportTable ==
    /\ result = NotRun
    /\ result' = Called("create_corner_report_table",
                        create_corner_report_table(arguments.corners1,
                                                   arguments.corners2))
    /\ UNCHANGED <<stage_vars, arguments>>

\* create_decomposition_table(decompositions, driver1_name, driver2_name)
CreateDecompositionTable ==
    /\ result = NotRun
    /\ result' = Called("create_decomposition_table",
                        create_decomposition_table(
                            decompose_corners(arguments.corners1, arguments.corners2)))
    /\ UNCHANGED <<stage_vars, arguments>>

\* analyze_weakness_pattern(decompositions)
AnalyzeWeaknessPattern ==
    /\ result = NotRun
    /\ result' = Called("analyze_weakness_pattern",
                        analyze_weakness_pattern(
                            decompose_corners(arguments.corners1, arguments.corners2)))
    /\ UNCHANGED <<stage_vars, arguments>>

NextReports ==
    \/ CompareReportZones
    \/ GetTopBrakingDifferences
    \/ CreateCornerReportTable
    \/ CreateDecompositionTable
    \/ AnalyzeWeaknessPattern

SpecReports == InitReports /\ [][NextReports]_vars

\* No corner pair, or no matched braking zone, in the input of the call.
NoCornerPair == arguments.corners1 = <<>> \/ arguments.corners2 = <<>>
NoMatchedZone ==
    compare_braking_zones(arguments.zones1, arguments.zones2,
                          R(DefaultDistanceTolerance)) = <<>>

\* C17: zero matched zones and zero corners are empty collections and
\* never raise: compare_braking_zones returns an empty table, and
\* get_top_braking_differences, create_corner_report_table,
\* create_decomposition_table and analyze_weakness_pattern complete without
\* error on empty input.
C17_EmptyInputsComplete ==
    result # NotRun =>
        /\ (result.call = "compare_braking_zones" /\ NoMatchedZone) =>
              (result.status = "ok" /\ empty(result.df))
        /\ (result.call = "get_top_braking_differences" /\ NoMatchedZone) =>
              result.status = "ok"
        /\ (result.call \in {"create_corner_report_table", "create_decomposition_table",
                              "analyze_weakness_pattern"} /\ NoCornerPair) =>
              result.status = "ok"

\* The consumers other than create_decomposition_table complete on empty
\* input.
C17_OtherConsumersComplete ==
    (result # NotRun /\ result.call # "create_decomposition_table") =>
        result.status = "ok"


-----------------------------------------------------------------------------
(* Properties of the fallback of get_circuit_corners                       *)

\* The session of the call has no usable marker: the circuit info cannot be
\* read or is None, the corner table is absent or empty, or every marker
\* lacks a distance.
MarkersUnusable ==
    \/ corners.session.circuit_info # "corners"
    \/ \A k \in 1..Len(corners.session.corners) :
          corners.session.corners[k].Distance = "NaN"

\* C18: get_circuit_corners returns the result of detect_corners on the
\* same trace whenever the circuit markers are unusable (circuit info
\* absent, corner table absent or empty, every marker lacking a distance,
\* marker processing raising), and marker-seeded corners only when at least
\* one marker could be used.
C18_FallbackWhenUnusable ==
    (corners # NotRun /\ corners.call = "get_circuit_corners" /\ MarkersUnusable) =>
        corners.result = detect_corners(telemetry1, R(MinSpeedThreshold), config)

\* The fallback is taken when the circuit info or the corner table is
\* missing, and when marker processing raises on an empty trace.
C18_FallbackWithoutTable ==
    (corners # NotRun /\ corners.call = "get_circuit_corners"
        /\ (corners.session.circuit_info # "corners" \/ telemetry1 = <<>>)) =>
        corners.result = detect_corners(telemetry1, R(MinSpeedThreshold), config)


-----------------------------------------------------------------------------
(* Properties of the corner ids of one detection pass                      *)

\* The corners of a list carry the ids 1..n once each, and listed by id
\* their apex distances do not decrease and their apex samples differ.
SequentialCorners(cs) ==
    /\ \A id \in 1..Len(cs) :
          Cardinality({k \in 1..Len(cs) : cs[k].corner_id = id}) = 1
    /\ \A i \in 1..Len(cs), j \in 1..Len(cs) :
          cs[i].corner_id < cs[j].corner_id =>
              RLe(cs[i].apex_distance, cs[j].apex_distance)
    /\ \A i \in 1..Len(cs), j \in 1..Len(cs) :
          i # j => cs[i].apex_idx # cs[j].apex_idx

\* C19: the corners returned by one detection pass (detect_corners or
\* get_circuit_corners) carry ids 1, 2, ..., n with no gaps and no
\* duplicates, and listed by id they have non-decreasing apex distances and
\* no two of them share an apex sample.
C19_SequentialIds ==
    corners # NotRun => SequentialCorners(corners.result)

\* The corners of the peak-detection path have sequential ids in apex order.
C19_PeakPathSequential ==
    (corners # NotRun /\ corners.call = "detect_corners") =>
        SequentialCorners(corners.result)


-----------------------------------------------------------------------------
(* race_pace.py: detect_stints                                             *)

\* Longest lap table handed to detect_stints, and the largest lap number.
MaxLaps == 4
MaxLapNumber == 5

\* The lap tables: rows in increasing LapNumber (laps may be missing, the
\* callers filter the table), LapTime in seconds, and the optional columns
\* Compound (a compound or "NaN") and PitOutTime (a time or "NaT").
LapSeconds == 90
Compounds == {"SOFT", "MEDIUM", "NaN"}
PitOutTimes == {"NaT", "14:30:00"}

LapRow(lap_number, compound, pit_out_time, with_compound, with_pit_out) ==
    [c \in {"LapNumber", "LapTime"}
           \cup (IF with_compound THEN {"Compound"} ELSE {})
           \cup (IF with_pit_out THEN {"PitOutTime"} ELSE {}) |->
        CASE c = "LapNumber" -> lap_number
          [] c = "LapTime" -> R(LapSeconds)
          [] c = "Compound" -> compound
          [] c = "PitOutTime" -> pit_out_time]

\* Stint(stint_number, start_lap, end_lap, compound)
Stint(stint_number, start_lap, end_lap, compound) ==
    [stint_number |-> stint_number, start_lap |-> start_lap, end_lap |-> end_lap,
     compound |-> compound, lap_times |-> <<>>, lap_numbers |-> <<>>]

\* One iteration of the loop over the rows: st holds stints, current_stint
\* and current_compound.
stint_step(st, row, columns) ==
    LET lap_number == row.LapNumber
        compound_changed ==
            /\ "Compound" \in columns
            /\ row.Compound # "NaN"
            /\ st.current_compound # "None"
            /\ row.Compound # st.current_compound
        current_compound == IF compound_changed THEN row.Compound ELSE st.current_compound
        is_pit_lap ==
            \/ compound_changed
            \/ ("PitOutTime" \in columns /\ row.PitOutTime # "NaT")
        new_stint == is_pit_lap /\ Len(st.current_stint.lap_times) > 0
        stints == IF new_stint
                  THEN Append(st.stints, [st.current_stint EXCEPT !.end_lap = lap_number - 1])
                  ELSE st.stints
        current_stint ==
            IF new_stint
            THEN Stint(st.current_stint.stint_number + 1, lap_number, 0,
                       IF "Compound" \in columns THEN current_compound ELSE "None")
            ELSE st.current_stint
    IN  [stints |-> stints,
         current_stint |-> [current_stint EXCEPT
                               !.lap_numbers = Append(@, lap_number),
                               !.lap_times = Append(@, row.LapTime)],
         current_compound |-> current_compound]

\* for idx, row in laps_df.iterrows(): the state after the first `last` rows
RECURSIVE stint_scan(_, _)
stint_scan(laps_df, last) ==
    IF last = 0
    THEN LET current_compound == IF "Compound" \in DOMAIN laps_df[1]
                                 THEN laps_df[1].Compound ELSE "None"
         IN  [stints |-> <<>>,
              current_stint |-> Stint(1, laps_df[1].LapNumber, 0, current_compound),
              current_compound |-> current_compound]
    ELSE stint_step(stint_scan(laps_df, last - 1), laps_df[last], DOMAIN laps_df[1])

\* Close final stint
close_stints(st, last_lap_number) ==
    IF Len(st.current_stint.lap_times) > 0
    THEN Append(st.stints, [st.current_stint EXCEPT !.end_lap = last_lap_number])
    ELSE st.stints

\* detect_stints(laps_df)
detect_stints(laps_df) ==
    IF laps_df = <<>> THEN [status |-> "ok", stints |-> <<>>]
    ELSE [status |-> "ok",
          stints |-> close_stints(stint_scan(laps_df, Len(laps_df)),
                                  laps_df[Len(laps_df)].LapNumber)]

InitStints ==
    /\ StagesIdle
    /\ \E n \in 0..MaxLaps, with_compound \in BOOLEAN, with_pit_out \in BOOLEAN :
          \E lap_number \in {s \in [1..n -> 1..MaxLapNumber] :
                                \A k \in 1..(n - 1) : s[k] < s[k + 1]},
             compound \in IF with_compound THEN [1..n -> Compounds]
                          ELSE {[k \in 1..n |-> "NaN"]},
             pit_out_time \in IF with_pit_out THEN [1..n -> PitOutTimes]
                              ELSE {[k \in 1..n |-> "NaT"]} :
             arguments = [laps_df |-> [k \in 1..n |->
                                          LapRow(lap_number[k], compound[k],
                                                 pit_out_time[k], with_compound,
                                                 with_pit_out)]]
    /\ result = NotRun

\* detect_stints(laps_df)
DetectStints ==
    /\ result = NotRun
    /\ result' = Called("detect_stints", detect_stints(arguments.laps_df))
    /\ UNCHANGED <<stage_vars, arguments>>

NextStints == DetectStints

SpecStints == InitStints /\ [][NextStints]_vars

\* The concatenation of the lap lists of the stints, in order.
RECURSIVE AllStintLaps(_)
AllStintLaps(stints) ==
    IF stints = <<>> THEN <<>>
    ELSE Head(stints).lap_numbers \o AllStintLaps(Tail(stints))

\* The stints are numbered 1, 2, ..., k, hold at least one lap each, and
\* their lap lists concatenate to the input laps in input order (so they are
\* disjoint); each starts at its first lap.
StintsPartitionLaps ==
    /\ \A k \in 1..Len(result.stints) :
          /\ result.stints[k].stint_number = k
          /\ result.stints[k].lap_numbers # <<>>
          /\ Len(result.stints[k].lap_times) = Len(result.stints[k].lap_numbers)
          /\ result.stints[k].start_lap = result.stints[k].lap_numbers[1]
    /\ AllStintLaps(result.stints) =
          [k \in 1..Len(arguments.laps_df) |-> arguments.laps_df[k].LapNumber]

\* C20: detect_stints returns stints numbered 1, 2, ..., k in order, each
\* holding at least one lap, whose lap lists are disjoint and concatenate
\* to the input laps in input order; each stint's start_lap and end_lap
\* are the lap numbers of its first and last lap; an empty lap table gives
\* an empty list.
C20_StintsPartitionLaps ==
    (result # NotRun /\ result.call = "detect_stints") =>
        /\ result.status = "ok"
        /\ StintsPartitionLaps
        /\ \A k \in 1..Len(result.stints) :
              LET laps == result.stints[k].lap_numbers
              IN  result.stints[k].end_lap = laps[Len(laps)]
        /\ arguments.laps_df = <<>> => result.stints = <<>>

\* Everything C20 states but the end_lap of the stints.
C20_PartitionInOrder ==
    (result # NotRun /\ result.call = "detect_stints") =>
        /\ result.status = "ok"
        /\ StintsPartitionLaps
        /\ arguments.laps_df = <<>> => result.stints = <<>>


-----------------------------------------------------------------------------
(* Properties of the stint boundaries of detect_stints                     *)

\* The input lap table and its optional columns.
Laps == arguments.laps_df
HasLapColumn(c) == Laps # <<>> /\ c \in DOMAIN Laps[1]
PitOutSet(k) == HasLapColumn("PitOutTime") /\ Laps[k].PitOutTime # "NaT"

\* The most recent compound present among the first k laps, "NaN" if none.
RECURSIVE LastKnownCompound(_)
LastKnownCompound(k) ==
    IF k = 0 THEN "NaN"
    ELSE IF Laps[k].Compound # "NaN" THEN Laps[k].Compound
    ELSE LastKnownCompound(k - 1)

\* The positions (2..n) of the laps at which a new stint is due: the
\* PitOutTime is set or the compound differs from the preceding lap's,
\* a missing compound read as a compound of its own ...
DueStartsByValue ==
    {k \in 2..Len(Laps) :
        \/ PitOutSet(k)
        \/ (HasLapColumn("Compound") /\ Laps[k].Compound # Laps[k - 1].Compound)}

\* ... or a missing compound read as no information: a lap differs when its
\* compound is present and is not the most recent compound present before.
DueStartsByKnown ==
    {k \in 2..Len(Laps) :
        \/ PitOutSet(k)
        \/ /\ HasLapColumn("Compound")
           /\ Laps[k].Compound # "NaN"
           /\ LastKnownCompound(k - 1) # "NaN"
           /\ Laps[k].Compound # LastKnownCompound(k - 1)}

\* The positions of the laps at which the returned stints 2, 3, ... start.
StintStarts ==
    {k \in 1..Len(Laps) :
        \E s \in 2..Len(result.stints) : result.stints[s].start_lap = Laps[k].LapNumber}

\* Every lap of a stint that has a compound has the stint's compound.
StintCompoundOfItsLaps ==
    HasLapColumn("Compound") =>
        \A s \in 1..Len(result.stints), k \in 1..Len(Laps) :
            (/\ Laps[k].Compound # "NaN"
             /\ \E j \in 1..Len(result.stints[s].lap_numbers) :
                   result.stints[s].lap_numbers[j] = Laps[k].LapNumber) =>
                Laps[k].Compound = result.stints[s].compound

\* C21: detect_stints starts a new stint at exactly those laps, other than
\* the first, whose compound differs from the compound of the preceding lap
\* or whose PitOutTime is set; each stint's compound is the compound of its
\* laps; a table with m such laps yields m + 1 stints.  Stated for either
\* reading of a lap whose compound is missing.
C21_StintBoundaries ==
    (result # NotRun /\ result.call = "detect_stints" /\ Laps # <<>>) =>
        \E due \in {DueStartsByValue, DueStartsByKnown} :
            /\ StintStarts = due
            /\ Len(result.stints) = Cardinality(due) + 1
            /\ StintCompoundOfItsLaps

\* A lap table in which every lap has its compound, or without the column.
CompoundsPresent ==
    HasLapColumn("Compound") => \A k \in 1..Len(Laps) : Laps[k].Compound # "NaN"

\* On lap tables without missing compounds the stint boundaries are as C21
\* states.
C21_BoundariesWithCompounds ==
    (result # NotRun /\ result.call = "detect_stints" /\ Laps # <<>>
        /\ CompoundsPresent) =>
        /\ StintStarts = DueStartsByValue
        /\ Len(result.stints) = Cardinality(DueStartsByValue) + 1
        /\ StintCompoundOfItsLaps


\* ---------------------------------------------------------------------
\* The pipeline stages and the telemetry frames of their caller
\* ---------------------------------------------------------------------

\* The longest frame handed to the stages below.
MaxFrameLen == 3

\* The frames lie on a 10 m grid and carry Distance, Speed, Brake and
\* Throttle; a sample at the lower speed is a braking sample (Brake 50 %,
\* Throttle 0 %), one at the higher speed is on full throttle.
FrameSpeeds == {R(40), R(100)}

FrameTrace(speed) ==
    [i \in 1..Len(speed) |->
        [Distance |-> RMul(R(i - 1), CornerGridStep), Speed |-> speed[i],
         Brake |-> IF speed[i] = R(40) THEN R(50) ELSE R(0),
         Throttle |-> IF speed[i] = R(40) THEN R(0) ELSE R(100)]]

\* The Config the stages receive: the defaults, with distance_resolution.
PipelineConfig ==
    [f \in DOMAIN DefaultConfig \cup {"distance_resolution"} |->
        IF f = "distance_resolution" THEN R(DistanceResolution) ELSE DefaultConfig[f]]

\* np.clip(x, lo, hi)
clip(x, lo, hi) == RMax(lo, RMin(x, hi))

\* compute_acceleration(telemetry, config) for a trace shorter than the
\* smoothing window: dv / dt with dt = dx / (v + epsilon) clipped to
\* [0.001, 10], the first value repeated in front; a trace of one sample
\* has no difference to repeat and raises IndexError.
compute_acceleration(telemetry, cfg) ==
    LET speed_kmh == Column(telemetry, "Speed")
        distance == Column(telemetry, "Distance")
        speed_mps == [i \in 1..Len(speed_kmh) |-> RDiv(speed_kmh[i], <<18, 5>>)]
        speed_smooth == smooth_signal(speed_mps, cfg.smoothing_window, cfg.smoothing_polyorder)
        dt == [i \in 1..(Len(distance) - 1) |->
                  clip(RDiv(RSub(distance[i + 1], distance[i]),
                            RAdd(speed_smooth[i], <<1, 36>>)),
                       <<1, 1000>>, R(10))]
        dv == [i \in 1..(Len(distance) - 1) |->
                  RSub(speed_smooth[i + 1], speed_smooth[i])]
        acceleration == [i \in 1..(Len(distance) - 1) |-> RDiv(dv[i], dt[i])]
    IN  IF Len(distance) < 2 THEN [status |-> "IndexError"]
        ELSE [status |-> "ok",
              result |-> smooth_signal(<<acceleration[1]>> \o acceleration,
                                       cfg.smoothing_window, cfg.smoothing_polyorder)]

\* df[column] = values on the frame df: the frame with that column set.
set_column(df, column, values) ==
    [i \in 1..Len(df) |->
        [c \in DOMAIN df[i] \cup {column} |->
            IF c = column THEN values[i] ELSE df[i][c]]]

\* add_physics_channels without the copy: the column is set on the frame
\* that was passed in.
add_physics_channels_in_place(telemetry, cfg) ==
    LET acceleration == compute_acceleration(telemetry, cfg)
    IN  IF acceleration.status # "ok"
        THEN [status |-> acceleration.status, telemetry |-> telemetry]
        ELSE [status |-> "ok",
              telemetry |-> set_column(telemetry, "Acceleration", acceleration.result),
              result |-> set_column(telemetry, "Acceleration", acceleration.result)]

\* add_physics_channels(telemetry, config): `telemetry = telemetry.copy()`
\* rebinds the local name to a new frame, and the Acceleration column is
\* set on that frame.  `result` is the frame returned, `telemetry` the
\* frame of the caller as the call leaves it.
add_physics_channels(telemetry, cfg) ==
    LET copy == telemetry
        acceleration == compute_acceleration(copy, cfg)
    IN  IF acceleration.status # "ok"
        THEN [status |-> acceleration.status, telemetry |-> telemetry]
        ELSE [status |-> "ok",
              telemetry |-> telemetry,
              result |-> set_column(copy, "Acceleration", acceleration.result)]

\* The target grid handed to interpolate_telemetry.
FrameGrid == create_distance_array(R(0), R(20), R(DistanceResolution))

\* The keyword arguments detect_braking_zones runs with when the caller
\* passes (telemetry, config) only.
DefaultZoneArguments(cfg) ==
    [config |-> cfg,
     brake_threshold |-> R(DefaultBrakeThreshold),
     min_zone_length |-> R(DefaultMinZoneLength),
     min_speed_drop |-> R(DefaultMinSpeedDrop)]

InitPipeline ==
    /\ \E n1, n2 \in 2..MaxFrameLen :
          \E speed1 \in [1..n1 -> FrameSpeeds], speed2 \in [1..n2 -> FrameSpeeds] :
             /\ telemetry1 = FrameTrace(speed1)
             /\ telemetry2 = FrameTrace(speed2)
    /\ config = PipelineConfig
    /\ corner1 = Unused
    /\ corner2 = Unused
    /\ aligned = NotRun
    /\ delta_time = NotRun
    /\ zones = NotRun
    /\ corners = NotRun
    /\ decomposition = NotRun
    /\ arguments = [telemetry1 |-> telemetry1, telemetry2 |-> telemetry2]
    /\ result = NotRun

\* What a stage that only reads its frames leaves behind.
ReadsOnly ==
    UNCHANGED <<telemetry1, telemetry2, config, corner1, corner2, aligned, delta_time,
                zones, corners, decomposition, arguments>>

\* align_laps(telemetry1, telemetry2, config)
CallAlignLaps ==
    /\ result = NotRun
    /\ result' = Called("align_laps", align_laps(telemetry1, telemetry2, config))
    /\ ReadsOnly

\* interpolate_telemetry(telemetry1, distance_array)
CallInterpolateTelemetry ==
    /\ result = NotRun
    /\ result' = [call |-> "interpolate_telemetry", status |-> "ok",
                  result |-> interpolate_telemetry(telemetry1, FrameGrid)]
    /\ ReadsOnly

\* add_physics_channels(telemetry1, config)
CallAddPhysicsChannels ==
    /\ result = NotRun
    /\ LET outcome == add_physics_channels(telemetry1, config)
       IN  /\ result' = Called("add_physics_channels",
                               [f \in DOMAIN outcome \ {"telemetry"} |-> outcome[f]])
           /\ telemetry1' = outcome.telemetry
    /\ UNCHANGED <<telemetry2, config, corner1, corner2, aligned, delta_time,
                   zones, corners, decomposition, arguments>>

\* compute_delta_time(telemetry1, telemetry2)
CallComputeDeltaTime ==
    /\ result = NotRun
    /\ result' = Called("compute_delta_time", compute_delta_time(telemetry1, telemetry2))
    /\ ReadsOnly

\* detect_corners(telemetry1, config=config)
CallDetectCorners ==
    /\ result = NotRun
    /\ result' = [call |-> "detect_corners", status |-> "ok",
                  result |-> detect_corners(telemetry1, R(MinSpeedThreshold), config)]
    /\ ReadsOnly

\* braking_zones.detect_braking_zones(telemetry1, config)
CallDetectBrakingZones ==
    /\ result = NotRun
    /\ result' = Called("detect_braking_zones",
                        detect_braking_zones(telemetry1, DefaultZoneArguments(config)))
    /\ ReadsOnly

\* compute_minisector_deltas(telemetry1, telemetry2, n_minisectors)
CallComputeMinisectorDeltas ==
    /\ result = NotRun
    /\ result' = Called("compute_minisector_deltas",
                        compute_minisector_deltas(telemetry1, telemetry2, 2))
    /\ ReadsOnly

NextPipeline ==
    \/ CallAlignLaps
    \/ CallInterpolateTelemetry
    \/ CallAddPhysicsChannels
    \/ CallComputeDeltaTime
    \/ CallDetectCorners
    \/ CallDetectBrakingZones
    \/ CallComputeMinisectorDeltas

SpecPipeline == InitPipeline /\ [][NextPipeline]_vars

\* The columns of a non-empty frame.
columns(df) == DOMAIN df[1]

-----------------------------------------------------------------------------
(* Properties of the entry and exit points of a corner                     *)

\* The windows of _analyze_corner around an apex: the samples up to
\* LookWindow before it, from the first sample of the trace on, and the
\* samples up to LookWindow after it, up to the last sample of the trace.
BackwardWindow(apex_idx) ==
    {i \in 0..(apex_idx - 1) : apex_idx - i <= LookWindow}

ForwardWindow(apex_idx, n) ==
    {i \in (apex_idx + 1)..(n - 1) : i - apex_idx <= LookWindow}

\* The samples at which the brake input crosses the threshold from below,
\* coming from a sample of the set: the sample before is below it, the
\* sample itself at or above it (the apex itself can be such a sample).
BrakeCrossings(samples, brake, brake_threshold) ==
    {j \in {i + 1 : i \in samples} :
        /\ RLt(At(brake, j - 1), brake_threshold)
        /\ RGe(At(brake, j), brake_threshold)}

\* The corner has its entry at the crossing of the set nearest the apex,
\* or, when the set is empty, at the apex with no braking phase.
EntryAtNearestOf(corner, crossings) ==
    IF crossings = {}
    THEN /\ corner.entry_idx = corner.apex_idx
         /\ corner.brake_distance = R(0)
         /\ corner.peak_deceleration = R(0)
    ELSE corner.entry_idx = CHOOSE j \in crossings : \A k \in crossings : k <= j

\* C23: the entry point of every corner is the sample of the backward
\* window (up to 100 samples before the apex, from the start of the trace
\* on) at which the brake crosses from below the threshold to at or above
\* it, the crossing nearest the apex; without a crossing in the window the
\* entry is the apex, brake_distance is 0 and peak_deceleration is 0.
C23_EntryAtNearestCrossing ==
    corners # NotRun =>
        \A k \in 1..Len(corners.result) :
            LET corner == corners.result[k]
            IN  EntryAtNearestOf(corner,
                    BrakeCrossings(BackwardWindow(corner.apex_idx),
                                   Column(telemetry1, "Brake"), config.brake_threshold))

\* The entry point is the nearest crossing among those of the backward
\* window without its first sample.
C23_EntryAfterFirstWindowSample ==
    corners # NotRun =>
        \A k \in 1..Len(corners.result) :
            LET corner == corners.result[k]
                window == BackwardWindow(corner.apex_idx)
            IN  EntryAtNearestOf(corner,
                    BrakeCrossings({i \in window : \E h \in window : h < i},
                                   Column(telemetry1, "Brake"), config.brake_threshold))

\* The corner has its exit at the first sample of the set with throttle at
\* or above 95 %, or, when there is none, at the apex.
ExitAtFirstOf(corner, samples, distance, throttle) ==
    LET open == {j \in samples : RGe(At(throttle, j), R(ThrottleThreshold))}
    IN  /\ corner.exit_idx = IF open = {} THEN corner.apex_idx
                             ELSE CHOOSE j \in open : \A k \in open : j <= k
        /\ open = {} => corner.throttle_reapply_distance = R(0)
        /\ corner.throttle_reapply_distance =
              RSub(At(distance, corner.exit_idx), corner.apex_distance)

\* C24: the exit point of every corner is the first sample after the apex,
\* among the up to 100 samples that follow it up to and including the last
\* sample of the trace, whose throttle is >= 95; without such a sample the
\* exit is the apex and throttle_reapply_distance is 0.
C24_ExitAtFirstFullThrottle ==
    corners # NotRun =>
        \A k \in 1..Len(corners.result) :
            LET corner == corners.result[k]
            IN  ExitAtFirstOf(corner, ForwardWindow(corner.apex_idx, Len(telemetry1)),
                              Column(telemetry1, "Distance"),
                              Column(telemetry1, "Throttle"))

\* The exit point is the first full-throttle sample among those of the
\* forward window without its last sample.
C24_ExitBeforeLastWindowSample ==
    corners # NotRun =>
        \A k \in 1..Len(corners.result) :
            LET corner == corners.result[k]
                window == ForwardWindow(corner.apex_idx, Len(telemetry1))
            IN  ExitAtFirstOf(corner, {i \in window : \E h \in window : i < h},
                              Column(telemetry1, "Distance"),
                              Column(telemetry1, "Throttle"))


-----------------------------------------------------------------------------
(* delta_decomp.py: the qualitative labels of a CornerDecomposition        *)

\* The corner pairs handed to decompose_corner_delta for its labels.  One
\* corner has every speed at the base speed (20 m/s in the decomposer's
\* conversion), brake distance 50 m and throttle distance 20 m; the other
\* differs from it in one of its speeds by 0, 2, 3 or 4 km/h and in its
\* distances by 0, 5 or 6 m, so that each difference lies below, on and
\* above its threshold.  Either corner can be driver 1's.
LabelSpeedOffsets == {R(0), R(2), R(3), R(4)}
LabelDistanceOffsets == {R(0), R(5), R(6)}
LabelSpeedFields == {"entry_speed", "min_speed", "exit_speed"}

BaseCorner ==
    [corner_id |-> 1,
     entry_speed |-> KmhOf(R(20)), min_speed |-> KmhOf(R(20)),
     exit_speed |-> KmhOf(R(20)),
     brake_distance |-> R(50), throttle_reapply_distance |-> R(20)]

OffsetCorner(field, speed_offset, brake_offset, throttle_offset) ==
    [f \in DOMAIN BaseCorner |->
        IF f = field THEN RAdd(BaseCorner[f], speed_offset)
        ELSE IF f = "brake_distance" THEN RAdd(BaseCorner[f], brake_offset)
        ELSE IF f = "throttle_reapply_distance" THEN RAdd(BaseCorner[f], throttle_offset)
        ELSE BaseCorner[f]]

InitLabels ==
    /\ StagesIdle
    /\ \E field \in LabelSpeedFields, speed_offset \in LabelSpeedOffsets,
          brake_offset \in LabelDistanceOffsets,
          throttle_offset \in LabelDistanceOffsets, swapped \in BOOLEAN :
          LET other == OffsetCorner(field, speed_offset, brake_offset, throttle_offset)
          IN  arguments = IF swapped
                          THEN [corner1 |-> BaseCorner, corner2 |-> other]
                          ELSE [corner1 |-> other, corner2 |-> BaseCorner]
    /\ result = NotRun

\* decompose_corner_delta(corner1, corner2)
DecomposeCornerLabels ==
    /\ result = NotRun
    /\ result' = Called("decompose_corner_delta",
                        CornerDecomposition(arguments.corner1, arguments.corner2))
    /\ UNCHANGED <<stage_vars, arguments>>

NextLabels == DecomposeCornerLabels

SpecLabels == InitLabels /\ [][NextLabels]_vars

\* The raw difference of a corner field, driver 1 minus driver 2.
Difference(field) == RSub(arguments.corner1[field], arguments.corner2[field])

\* The labels the raw differences call for.
BrakingLabelDue ==
    IF RGt(Difference("brake_distance"), R(5)) THEN "earlier_braking"
    ELSE IF RLt(Difference("brake_distance"), R(-5)) THEN "later_braking"
    ELSE IF RGt(Difference("entry_speed"), R(3)) THEN "higher_entry"
    ELSE IF RLt(Difference("entry_speed"), R(-3)) THEN "lower_entry"
    ELSE "similar"

MidCornerLabelDue ==
    IF RGt(Difference("min_speed"), R(2)) THEN "faster_apex"
    ELSE IF RLt(Difference("min_speed"), R(-2)) THEN "slower_apex"
    ELSE "similar"

TractionLabelDue ==
    IF RGt(Difference("exit_speed"), R(3)) THEN "better_exit"
    ELSE IF RLt(Difference("exit_speed"), R(-3)) THEN "worse_exit"
    ELSE IF RLt(Difference("throttle_reapply_distance"), R(-5)) THEN "earlier_throttle"
    ELSE IF RGt(Difference("throttle_reapply_distance"), R(5)) THEN "later_throttle"
    ELSE "similar"

-----------------------------------------------------------------------------
(* The pairing of the corners of two drivers                               *)

\* The corner lists handed to the pairing: corner k of a list has id k and
\* lies at 100 * k + 0.5 m; its minimum speed and brake distance are drawn
\* per corner, so that the corners of a list can be told apart.
PairingCornerValues ==
    {c \in ReportCornerValues : c.brake_distance \in {R(0), R(20)}}

PairingCorners(values) ==
    [k \in 1..Len(values) |-> ReportCorners(k, values[k])[k]]

InitPairing ==
    /\ StagesIdle
    /\ \E n1 \in 0..MaxReportLen, n2 \in 0..MaxReportLen :
          \E values1 \in [1..n1 -> PairingCornerValues],
             values2 \in [1..n2 -> PairingCornerValues] :
             arguments = [corners1 |-> PairingCorners(values1),
                          corners2 |-> PairingCorners(values2)]
    /\ result = NotRun

\* create_corner_report_table(corners1, corners2, driver1_name, driver2_name)
PairCornerReportTable ==
    /\ result = NotRun
    /\ result' = Called("create_corner_report_table",
                        create_corner_report_table(arguments.corners1,
                                                   arguments.corners2))
    /\ UNCHANGED <<stage_vars, arguments>>

\* The decomposition loop of the application over corners1 and corners2.
PairDecompositions ==
    /\ result = NotRun
    /\ result' = [call |-> "decomposition loop", status |-> "ok",
                  decompositions |-> decompose_corners(arguments.corners1,
                                                       arguments.corners2)]
    /\ UNCHANGED <<stage_vars, arguments>>

NextPairing == PairCornerReportTable \/ PairDecompositions

SpecPairing == InitPairing /\ [][NextPairing]_vars

\* min(len(corners1), len(corners2))
MinCorners ==
    IF Len(arguments.corners1) < Len(arguments.corners2) THEN Len(arguments.corners1)
    ELSE Len(arguments.corners2)

\* Row i of the report table shows corner i of driver 1 and corner i of
\* driver 2.
RowPairsIth(row, i) ==
    LET c1 == arguments.corners1[i]
        c2 == arguments.corners2[i]
    IN  /\ row.Corner = c1.corner_id
        /\ row.Distance = int(c1.apex_distance)
        /\ row.D1_Min_Speed = round(c1.min_speed, 1)
        /\ row.D2_Min_Speed = round(c2.min_speed, 1)
        /\ row.D1_Brake_Dist = round(c1.brake_distance, 1)
        /\ row.D2_Brake_Dist = round(c2.brake_distance, 1)
        /\ row.Min_Delta = round(RSub(c1.min_speed, c2.min_speed), 1)
        /\ row.Brake_Dist_Delta = round(RSub(c1.brake_distance, c2.brake_distance), 1)

\* Decomposition i is built from corner i of driver 1 and corner i of
\* driver 2.
DecompositionPairsIth(decomp, i) ==
    LET c1 == arguments.corners1[i]
        c2 == arguments.corners2[i]
    IN  /\ decomp.corner_id = c1.corner_id
        /\ decomp.mid_corner_contribution =
              RSub(phase_time(R(ApexDistance), c1.min_speed),
                   phase_time(R(ApexDistance), c2.min_speed))
        /\ decomp.braking_contribution =
              RSub(phase_time(c1.brake_distance, average(c1.entry_speed, c1.min_speed)),
                   phase_time(c2.brake_distance, average(c2.entry_speed, c2.min_speed)))

-----------------------------------------------------------------------------
(* Properties of the samples counted by the minisector bins                *)

\* The bins (1-based) of the result whose mask holds sample k of the input:
\* (distance >= distance_starts[i]) & (distance < distance_ends[i]).
BinsOfSample(k) ==
    {i \in 1..Len(result.distance_start) :
        k \in minisector_mask(
                  AsArray([j \in 1..Len(arguments.telemetry1) |->
                              F64Of(arguments.telemetry1[j].Distance)]),
                  result.distance_start[i], result.distance_end[i])}

\* The number of samples bin i counts.
BinSampleCount(i) ==
    Cardinality({k \in 1..Len(arguments.telemetry1) : i \in BinsOfSample(k)})

MinisectorsComputed ==
    /\ result # NotRun
    /\ result.call = "compute_minisector_deltas"
    /\ result.status = "ok"

\* C27: the minisector bins partition the samples of the aligned trace:
\* every sample, the first and the last included, is counted in exactly one
\* bin, and the per-bin sample counts add up to the trace length.
C27_BinsPartitionSamples ==
    MinisectorsComputed =>
        /\ \A k \in 1..Len(arguments.telemetry1) : Cardinality(BinsOfSample(k)) = 1
        /\ SeqSum([i \in 1..Len(result.distance_start) |-> R(BinSampleCount(i))])
              = R(Len(arguments.telemetry1))

\* Every sample before the last one is counted in exactly one bin, and the
\* last sample, which lies on the last boundary, in none.
C27_BinsPartitionAllButLast ==
    MinisectorsComputed =>
        \A k \in 1..Len(arguments.telemetry1) :
            Cardinality(BinsOfSample(k)) = IF k < Len(arguments.telemetry1) THEN 1 ELSE 0


-----------------------------------------------------------------------------
(* braking_zones.py: the brake threshold of the Config passed              *)

\* Longest trace handed to detect_braking_zones together with a Config.
MaxThresholdLen == 4

\* Config.brake_threshold values (the default and a stricter one) and brake
\* inputs (%) below, between and above them; the traces lie on a 20 m grid.
ConfigThresholds == {R(ConfigBrakeThreshold), R(20)}
ThresholdBrakeInputs == {R(0), R(15), R(50)}

InitThreshold ==
    /\ \E n \in 1..MaxThresholdLen :
          \E speed \in [1..n -> BrakeSpeeds], brake \in [1..n -> ThresholdBrakeInputs] :
             telemetry1 = BrakeTrace(R(20), speed, brake, TRUE)
    /\ telemetry2 = Unused
    /\ \E threshold \in ConfigThresholds :
          config = DefaultZoneArguments([brake_threshold |-> threshold])
    /\ corner1 = Unused
    /\ corner2 = Unused
    /\ aligned = NotRun
    /\ delta_time = NotRun
    /\ zones = NotRun
    /\ corners = NotRun
    /\ decomposition = NotRun
    /\ arguments = Unused
    /\ result = NotRun

\* braking_zones.detect_braking_zones(telemetry, config), as the
\* application calls it
NextThreshold == DetectBrakingZones

SpecThreshold == InitThreshold /\ [][NextThreshold]_vars

\* The samples (0-based) of the input that lie within a returned zone.
ZoneSamples(z) ==
    {i \in 0..(Len(telemetry1) - 1) :
        /\ RLe(z.start_distance, At(telemetry1, i).Distance)
        /\ RLe(At(telemetry1, i).Distance, z.end_distance)}

\* The zones of a scan that classifies a sample as braking when its brake
\* input exceeds the given threshold.
ZonesUnderThreshold(threshold) ==
    scan(Len(telemetry1) - 1,
         Column(telemetry1, "Distance"), Column(telemetry1, "Speed"),
         Column(telemetry1, "Brake"),
         [config EXCEPT !.brake_threshold = threshold]).zones

\* C28: the brake threshold detect_braking_zones applies is the
\* brake_threshold of the Config passed to the call: the samples of the
\* zones returned have a brake input above the configured threshold, and
\* the zones are those of the samples classified by that threshold.
C28_ConfigThresholdApplied ==
    zones # NotRun =>
        /\ \A k \in 1..Len(zones.result) : \A i \in ZoneSamples(zones.result[k]) :
              RGt(At(telemetry1, i).Brake, config.config.brake_threshold)
        /\ zones.result = ZonesUnderThreshold(config.config.brake_threshold)

\* The threshold applied is the brake_threshold keyword argument: the
\* samples of the zones returned have a brake input above it, whatever the
\* Config holds.
C28_KeywordThresholdApplied ==
    zones # NotRun =>
        /\ \A k \in 1..Len(zones.result) : \A i \in ZoneSamples(zones.result[k]) :
              RGt(At(telemetry1, i).Brake, config.brake_threshold)
        /\ \A threshold \in ConfigThresholds :
              zones.result =
                  detect_braking_zones(
                      telemetry1,
                      [config EXCEPT !.config = [brake_threshold |-> threshold]]).result


-----------------------------------------------------------------------------
(* braking_zones.py: the order of the zones of one trace                   *)

\* Longest trace handed to detect_braking_zones for the order of its zones.
MaxOrderLen == 5

\* The traces have non-decreasing distance: each sample lies 20 m after the
\* one before it or at the same distance.  The minimums are the defaults or
\* zero, so that a zone of one sample can be returned.
DistanceIncrements == {R(0), R(20)}
ZoneMinimums == {R(0), R(DefaultMinZoneLength)}

RECURSIVE cumulative(_)
cumulative(increments) ==
    IF increments = <<>> THEN <<>>
    ELSE LET init == cumulative(SubSeq(increments, 1, Len(increments) - 1))
         IN  Append(init, IF init = <<>> THEN increments[1]
                          ELSE RAdd(init[Len(init)], increments[Len(increments)]))

InitOrder ==
    /\ \E n \in 1..MaxOrderLen :
          \E increment \in [1..n -> DistanceIncrements],
             speed \in [1..n -> BrakeSpeeds], brake \in [1..n -> BrakeInputs] :
             /\ increment[1] = R(0)
             /\ telemetry1 =
                   [i \in 1..n |->
                       [Distance |-> cumulative(increment)[i], Speed |-> speed[i],
                        Brake |-> brake[i]]]
    /\ telemetry2 = Unused
    /\ \E minimum \in ZoneMinimums :
          config = [config |-> [brake_threshold |-> R(ConfigBrakeThreshold)],
                    brake_threshold |-> R(DefaultBrakeThreshold),
                    min_zone_length |-> minimum,
                    min_speed_drop |-> minimum]
    /\ corner1 = Unused
    /\ corner2 = Unused
    /\ aligned = NotRun
    /\ delta_time = NotRun
    /\ zones = NotRun
    /\ corners = NotRun
    /\ decomposition = NotRun
    /\ arguments = Unused
    /\ result = NotRun

\* detect_braking_zones(telemetry, config, min_zone_length=...,
\* min_speed_drop=...)
NextOrder == DetectBrakingZones

SpecOrder == InitOrder /\ [][NextOrder]_vars

\* The zones are listed in increasing distance order and are pairwise
\* disjoint, each has its start at or before its end and its minimum speed
\* at or below its entry and exit speeds, and every sample between its start
\* and end has a brake input above the threshold.
ZonesOrderedAndDisjoint ==
    /\ \A k \in 1..(Len(zones.result) - 1) :
          RLt(zones.result[k].end_distance, zones.result[k + 1].start_distance)
    /\ \A k \in 1..Len(zones.result) :
          LET z == zones.result[k]
          IN  /\ RLe(z.start_distance, z.end_distance)
              /\ RLe(z.min_speed, z.entry_speed)
              /\ RLe(z.min_speed, z.exit_speed)
              /\ \A i \in ZoneSamples(z) :
                    RGt(At(telemetry1, i).Brake, config.brake_threshold)

\* No two samples of the input share a distance.
StrictlyIncreasingDistance ==
    \A i \in 1..(Len(telemetry1) - 1) :
        RLt(telemetry1[i].Distance, telemetry1[i + 1].Distance)

-----------------------------------------------------------------------------
(* Properties of the rows of compare_braking_zones                         *)

\* The positions in zones2 of the zones that the driver-1 zone z1 selects
\* when it is matched on its own: the zones within the tolerance that are
\* nearest to it.
SelectedBy(z1) ==
    {k \in 1..Len(arguments.zones2) :
        /\ RLt(StartDiff(z1, arguments.zones2[k]), arguments.distance_tolerance)
        /\ \A j \in 1..Len(arguments.zones2) :
              RLe(StartDiff(z1, arguments.zones2[k]), StartDiff(z1, arguments.zones2[j]))}

\* The rows of the result that show the driver-2 zone at position k.
RowsOfDriver2Zone(k) ==
    {r \in 1..Len(result.df) :
        result.df[r].Start_Dist_Driver2 = arguments.zones2[k].start_distance}

\* C30: compare_braking_zones matches each driver-1 zone independently of
\* the others: at most one row per driver-1 zone, rows in the order of the
\* driver-1 list with the driver-1 zone's id as Zone_ID, each row showing a
\* driver-2 zone its driver-1 zone selects on its own (so a driver-2 zone is
\* not consumed by a match and can appear in several rows), every driver-1
\* zone that selects a zone having a row, and a driver-2 zone that no
\* driver-1 zone selects appearing in no row.
C30_IndependentMatching ==
    (result # NotRun /\ result.call = "compare_braking_zones") =>
        /\ \A r \in 1..Len(result.df) :
              /\ result.df[r].Zone_ID \in 1..Len(arguments.zones1)
              /\ r > 1 => result.df[r - 1].Zone_ID < result.df[r].Zone_ID
              /\ LET z1 == arguments.zones1[result.df[r].Zone_ID]
                 IN  /\ result.df[r].Start_Dist_Driver1 = z1.start_distance
                     /\ \E k \in SelectedBy(z1) :
                           result.df[r] = comparison_row(z1, arguments.zones2[k])
        /\ \A i \in 1..Len(arguments.zones1) :
              SelectedBy(arguments.zones1[i]) # {} =>
                  \E r \in 1..Len(result.df) :
                      result.df[r].Zone_ID = arguments.zones1[i].zone_id
        /\ \A k \in 1..Len(arguments.zones2) :
              (\A i \in 1..Len(arguments.zones1) : k \notin SelectedBy(arguments.zones1[i]))
                  => RowsOfDriver2Zone(k) = {}

\* One driver-2 zone appears in two rows, and another driver-2 zone, which
\* no driver-1 zone selects, appears in none.
C30_Witness ==
    /\ result # NotRun
    /\ result.call = "compare_braking_zones"
    /\ \E k \in 1..Len(arguments.zones2) : Cardinality(RowsOfDriver2Zone(k)) = 2
    /\ \E k \in 1..Len(arguments.zones2) : RowsOfDriver2Zone(k) = {}

=============================================================================
